---- MODULE Spec2Model ----
(***************************************************************************)
(* Model of the Google Spreadsheet MCP server: the identifier resolver    *)
(* (extractSpreadsheetId) and the SpreadsheetClient access layer.         *)
(*                                                                         *)
(* Text is modelled as a sequence of one-character strings, so that the   *)
(* regular expressions, String.includes, String.split and the template    *)
(* literals of the source are computed character by character.            *)
(***************************************************************************)
EXTENDS Integers, Sequences, FiniteSets, TLC

VARIABLES
    url,               \* argument of extractSpreadsheetId
    resolved,          \* outcome of extractSpreadsheetId(url)
    rangeArg,          \* argument of validateA1Notation
    rangeChecked,      \* outcome of validateA1Notation(rangeArg)
    MAX_RESPONSE_SIZE, \* SpreadsheetClient.MAX_RESPONSE_SIZE (static, read once)
    remote,            \* what the remote spreadsheets.get replies with
    pc,                \* position of the operation in flight
    op,                \* the operation in flight and its arguments
    spreadsheetInfo,   \* snapshot fetched by the operation in flight
    calls,             \* remote calls issued by the operation in flight
    reply,             \* the last reply of the remote to the operation in flight
    result,            \* outcome of the operation in flight
    created,           \* titles of the sheets addSheet has returned so far
    tool,              \* the tool execution in flight and its arguments
    toolResult,        \* what the tool's execute resolved with
    flights            \* the addSheet operations of concurrent callers in flight

vars == <<url, resolved, rangeArg, rangeChecked, MAX_RESPONSE_SIZE, remote,
          pc, op, spreadsheetInfo, calls, reply, result, created, tool, toolResult,
          flights>>

resolverVars == <<url, resolved>>
rangeVars    == <<rangeArg, rangeChecked>>
clientVars   == <<MAX_RESPONSE_SIZE, remote, pc, op, spreadsheetInfo, calls, reply, result,
                  created>>
toolVars     == <<tool, toolResult>>
concurrentVars == <<flights>>

-----------------------------------------------------------------------------
(* Bounds of the model *)

MaxFront == 1     \* characters in front of a URL
MaxTail == 3      \* characters behind the URL prefix / length of a bare token
MaxRangeLen == 3  \* length of an enumerated range argument of an operation
MaxSubRangeLen == 5  \* length of an enumerated sub-range given to isValidRange
MaxUpdates == 2   \* updates in one batch

-----------------------------------------------------------------------------
(* Characters and text helpers *)

Lower == {"a","b","c","d","e","f","g","h","i","j","k","l","m",
          "n","o","p","q","r","s","t","u","v","w","x","y","z"}
Upper == {"A","B","C","D","E","F","G","H","I","J","K","L","M",
          "N","O","P","Q","R","S","T","U","V","W","X","Y","Z"}
Digit == {"0","1","2","3","4","5","6","7","8","9"}

\* the class [a-zA-Z0-9-_]
IdClass == Lower \cup Upper \cup Digit \cup {"-", "_"}

\* all sequences over alphabet a of length 0..n
SeqsUpTo(a, n) == UNION {[1..k -> a] : k \in 0..n}

\* s.includes(c) for a single character c
Includes(s, c) == \E i \in 1..Len(s) : s[i] = c

\* does text p occur in s starting at index i
OccursAt(s, p, i) ==
    /\ i >= 1
    /\ i + Len(p) - 1 <= Len(s)
    /\ \A k \in 1..Len(p) : s[i + k - 1] = p[k]

\* length of the longest run of characters of class cls starting at index j
RECURSIVE RunLen(_, _, _)
RunLen(s, cls, j) ==
    IF j <= Len(s) /\ s[j] \in cls THEN 1 + RunLen(s, cls, j + 1) ELSE 0

Min(S) == CHOOSE m \in S : \A n \in S : m <= n
Max(S) == CHOOSE m \in S : \A n \in S : m >= n

\* error values: new Error(message); message is a template literal, kept as
\* its literal pieces and interpolated texts
Lit(l) == [lit |-> l, str |-> <<>>]
Str(s) == [lit |-> "", str |-> s]
Error(kind, message) == [ok |-> FALSE, kind |-> kind, message |-> message]

-----------------------------------------------------------------------------
(* src/utils/url-parser.ts *)

\* "https://docs.google.com/spreadsheets/d/"
UrlPrefix == <<"h","t","t","p","s",":","/","/","d","o","c","s",".","g","o","o",
               "g","l","e",".","c","o","m","/","s","p","r","e","a","d","s","h",
               "e","e","t","s","/","d","/">>

\* /https:\/\/docs\.google\.com\/spreadsheets\/d\/([a-zA-Z0-9-_]+)(?:\/|$|\?)/
\* at start index i: the capture lengths k (greedy first) for which the
\* boundary alternative matches behind the capture
BoundedCaptures(s, i) ==
    IF ~OccursAt(s, UrlPrefix, i) THEN {}
    ELSE LET j == i + Len(UrlPrefix)
             m == RunLen(s, IdClass, j)
         IN {k \in 1..m : \/ j + k = Len(s) + 1
                          \/ (j + k <= Len(s) /\ s[j + k] \in {"/", "?"})}

\* variant: the capture group also takes the boundary character
MatchBounded_withBoundary(s) ==
    LET starts == {i \in 1..Len(s) : BoundedCaptures(s, i) # {}}
    IN IF starts = {} THEN <<>>
       ELSE LET i == Min(starts)
                j == i + Len(UrlPrefix)
                k == Max(BoundedCaptures(s, i))
            IN SubSeq(s, j, IF j + k <= Len(s) THEN j + k ELSE j + k - 1)

\* url.match(pattern 1): capture group 1 of the leftmost match, or <<>> (null)
MatchBounded(s) ==
    LET starts == {i \in 1..Len(s) : BoundedCaptures(s, i) # {}}
    IN IF starts = {} THEN <<>>
       ELSE LET i == Min(starts)
                j == i + Len(UrlPrefix)
                k == Max(BoundedCaptures(s, i))
            IN SubSeq(s, j, j + k - 1)

\* variant: the pattern anchored at the start of the input
MatchUnbounded_anchored(s) ==
    IF OccursAt(s, UrlPrefix, 1) /\ RunLen(s, IdClass, 1 + Len(UrlPrefix)) >= 1
    THEN LET j == 1 + Len(UrlPrefix)
         IN SubSeq(s, j, j + RunLen(s, IdClass, j) - 1)
    ELSE <<>>

\* /https:\/\/docs\.google\.com\/spreadsheets\/d\/([a-zA-Z0-9-_]+)/
MatchUnbounded(s) ==
    LET starts == {i \in 1..Len(s) :
                     /\ OccursAt(s, UrlPrefix, i)
                     /\ RunLen(s, IdClass, i + Len(UrlPrefix)) >= 1}
    IN IF starts = {} THEN <<>>
       ELSE LET j == Min(starts) + Len(UrlPrefix)
            IN SubSeq(s, j, j + RunLen(s, IdClass, j) - 1)

\* variant: the pattern without the anchor at the end of the input
MatchBare_prefix(s) ==
    IF RunLen(s, IdClass, 1) >= 1 THEN SubSeq(s, 1, RunLen(s, IdClass, 1))
    ELSE <<>>

\* /^([a-zA-Z0-9-_]+)$/
MatchBare(s) ==
    IF Len(s) >= 1 /\ RunLen(s, IdClass, 1) = Len(s) THEN s ELSE <<>>

InvalidIdentifier ==
    Error("InvalidIdentifier", <<Lit("Invalid Google Spreadsheet URL or ID")>>)

\* the loop over patterns: the first pattern with a non-empty capture wins
FirstMatch(captures) ==
    LET hits == {n \in 1..Len(captures) : captures[n] # <<>>}
    IN IF hits = {} THEN InvalidIdentifier
       ELSE [ok |-> TRUE, id |-> captures[Min(hits)]]

extractSpreadsheetId(s) ==
    FirstMatch(<<MatchBounded(s), MatchUnbounded(s), MatchBare(s)>>)

-----------------------------------------------------------------------------
(* Optional values: <<>> is undefined/absent, <<v>> is a present value *)

None == <<>>
Some(v) == <<v>>
IsSome(o) == o # <<>>

\* o || d : the default replaces an absent value and the falsy value of its type
OrElse(o, falsy, d) == IF o = None \/ o[1] = falsy THEN d ELSE o[1]

-----------------------------------------------------------------------------
(* SpreadsheetClient: A1 notation *)

\* the positions just behind a match of [A-Z]+[0-9]+ that starts at index i
CellEnds(s, i) ==
    LET u == RunLen(s, Upper, i)
        d == RunLen(s, Digit, i + u)
    IN IF u >= 1 THEN {i + u + n : n \in 1..d} ELSE {}

\* /^[A-Z]+[0-9]+$/.test(s)
a1Pattern(s) == Len(s) + 1 \in CellEnds(s, 1)

\* /^[A-Z]+[0-9]+:[A-Z]+[0-9]+$/.test(s)
a1RangePattern(s) ==
    \E e \in CellEnds(s, 1) :
        /\ e <= Len(s)
        /\ s[e] = ":"
        /\ Len(s) + 1 \in CellEnds(s, e + 1)

\* variant: the single-cell pattern without its end anchor
isValidRange_unanchored(range) ==
    IF CellEnds(range, 1) # {} THEN TRUE
    ELSE IF Includes(range, ":") THEN a1RangePattern(range)
    ELSE FALSE

isValidRange(range) ==
    IF a1Pattern(range) THEN TRUE
    ELSE IF Includes(range, ":") THEN a1RangePattern(range)
    ELSE FALSE

\* s.split(c)
RECURSIVE Split(_, _)
Split(s, c) ==
    IF ~Includes(s, c) THEN <<s>>
    ELSE LET i == Min({k \in 1..Len(s) : s[k] = c})
         IN <<SubSeq(s, 1, i - 1)>> \o Split(SubSeq(s, i + 1, Len(s)), c)

InvalidRange(range) ==
    Error("InvalidRange", <<Lit("Invalid A1 notation range: "), Str(range)>>)

\* validateA1Notation: [ok |-> TRUE] or the error it throws
validateA1Notation(a1Notation) ==
    IF Includes(a1Notation, "!")
    THEN LET range == Split(a1Notation, "!")[2]
         IN IF range # <<>> /\ ~isValidRange(range)
            THEN InvalidRange(range)
            ELSE [ok |-> TRUE]
    ELSE [ok |-> TRUE]

\* variant: the sheet name is put in front of every range given
buildFullRange_alwaysPrefix(sheetName, range) ==
    IF IsSome(range) /\ range[1] # <<>>
    THEN sheetName \o <<"!">> \o range[1]
    ELSE sheetName

\* "Build range" of prepareSheetRange and of batchUpdateCellValues;
\* range is optional and an empty string is falsy
buildFullRange(sheetName, range) ==
    IF IsSome(range) /\ range[1] # <<>>
    THEN IF Includes(range[1], "!")
         THEN range[1]
         ELSE sheetName \o <<"!">> \o range[1]
    ELSE sheetName

-----------------------------------------------------------------------------
(* SpreadsheetClient: configuration and JSON size *)

\* value of a decimal digit character
DigitValue(c) ==
    CASE c = "0" -> 0 [] c = "1" -> 1 [] c = "2" -> 2 [] c = "3" -> 3
      [] c = "4" -> 4 [] c = "5" -> 5 [] c = "6" -> 6 [] c = "7" -> 7
      [] c = "8" -> 8 [] c = "9" -> 9

\* Number.parseInt(s, 10) of a text of decimal digits
RECURSIVE parseInt(_)
parseInt(s) ==
    IF s = <<>> THEN 0
    ELSE 10 * parseInt(SubSeq(s, 1, Len(s) - 1)) + DigitValue(s[Len(s)])

\* env.MAX_RESPONSE_SIZE: z.string().default("30000")
DefaultMaxResponseSize == <<"3","0","0","0","0">>

\* Number.parseInt(env.MAX_RESPONSE_SIZE ?? "30000", 10)
configuredMaxResponseSize(envValue) ==
    parseInt(IF envValue = None THEN DefaultMaxResponseSize ELSE envValue[1])

DigitChar(n) ==
    CASE n = 0 -> "0" [] n = 1 -> "1" [] n = 2 -> "2" [] n = 3 -> "3"
      [] n = 4 -> "4" [] n = 5 -> "5" [] n = 6 -> "6" [] n = 7 -> "7"
      [] n = 8 -> "8" [] n = 9 -> "9"

\* String(n) for an integer n, as `${n}` and JSON.stringify write it
RECURSIVE DecimalString(_)
DecimalString(n) ==
    IF n < 0 THEN <<"-">> \o DecimalString(0 - n)
    ELSE IF n < 10 THEN <<DigitChar(n)>>
    ELSE DecimalString(n \div 10) \o <<DigitChar(n % 10)>>

\* cell values: strings, numbers and booleans
StringCell(s)  == [t |-> "string",  s |-> s,    n |-> 0, b |-> FALSE]
NumberCell(n)  == [t |-> "number",  s |-> <<>>, n |-> n, b |-> FALSE]
BooleanCell(b) == [t |-> "boolean", s |-> <<>>, n |-> 0, b |-> b]

\* JSON.stringify(x).length
\* a string is quoted, and a quote or backslash in it takes two characters
JsonStringLen(s) ==
    2 + Len(s) + Cardinality({i \in 1..Len(s) : s[i] \in {"\"", "\\"}})
JsonCellLen(cell) ==
    CASE cell.t = "string"  -> JsonStringLen(cell.s)
      [] cell.t = "number"  -> Len(DecimalString(cell.n))
      [] cell.t = "boolean" -> IF cell.b THEN 4 ELSE 5

\* the brackets and the commas of an array of n elements
JsonArrayOverhead(n) == 2 + (IF n > 1 THEN n - 1 ELSE 0)

RECURSIVE JsonCellsLen(_)
JsonCellsLen(row) ==
    IF row = <<>> THEN 0 ELSE JsonCellLen(row[1]) + JsonCellsLen(Tail(row))
JsonRowLen(row) == JsonArrayOverhead(Len(row)) + JsonCellsLen(row)

RECURSIVE JsonRowsLen(_)
JsonRowsLen(values) ==
    IF values = <<>> THEN 0 ELSE JsonRowLen(values[1]) + JsonRowsLen(Tail(values))
JsonLen(values) == JsonArrayOverhead(Len(values)) + JsonRowsLen(values)

ResponseTooLarge(responseSize) ==
    Error("ResponseTooLarge",
          <<Lit("Response size ("), Str(DecimalString(responseSize)),
            Lit(" characters) exceeds the maximum allowed size. Please specify a smaller range.")>>)

-----------------------------------------------------------------------------
(* SpreadsheetClient: metadata and sheet existence *)

UntitledSpreadsheet ==
    <<"U","n","t","i","t","l","e","d"," ","S","p","r","e","a","d","s","h","e","e","t">>
UntitledSheet ==
    <<"U","n","t","i","t","l","e","d"," ","S","h","e","e","t">>

MetadataFields == "spreadsheetId,properties.title,sheets.properties"

\* the request of this.sheets.spreadsheets.get
MetadataGet(spreadsheetId) ==
    [api |-> "spreadsheets.get", spreadsheetId |-> spreadsheetId,
     fields |-> MetadataFields]

\* variant: a sheet without grid counts is given the counts of a new sheet
formatSheet_defaultGrid(properties) ==
    [title       |-> OrElse(properties.title, <<>>, UntitledSheet),
     sheetId     |-> OrElse(properties.sheetId, 0, 0),
     rowCount    |-> OrElse(properties.rowCount, 0, 1000),
     columnCount |-> OrElse(properties.columnCount, 0, 26)]

formatSheet(properties) ==
    [title       |-> OrElse(properties.title, <<>>, UntitledSheet),
     sheetId     |-> OrElse(properties.sheetId, 0, 0),
     rowCount    |-> OrElse(properties.rowCount, 0, 0),
     columnCount |-> OrElse(properties.columnCount, 0, 0)]

\* variant: the sheets are those of a layout fetched earlier, whatever the
\* remote replies now
getSpreadsheetInfo_cached(spreadsheetId, data) ==
    [spreadsheetId |-> spreadsheetId,
     title  |-> OrElse(data.title, <<>>, UntitledSpreadsheet),
     sheets |-> <<formatSheet([title |-> <<<<"S","1">>>>, sheetId |-> <<0>>,
                               rowCount |-> <<100>>, columnCount |-> <<20>>])>>]

\* getSpreadsheetInfo once spreadsheets.get has replied with data
getSpreadsheetInfo(spreadsheetId, data) ==
    [spreadsheetId |-> spreadsheetId,
     title  |-> OrElse(data.title, <<>>, UntitledSpreadsheet),
     sheets |-> IF data.sheets = None THEN <<>>
                ELSE [i \in 1..Len(data.sheets[1]) |-> formatSheet(data.sheets[1][i])]]

SheetNotFound(sheetName) ==
    Error("SheetNotFound",
          <<Lit("Sheet \""), Str(sheetName), Lit("\" does not exist in this spreadsheet")>>)

LowerLetters == <<"a","b","c","d","e","f","g","h","i","j","k","l","m",
                  "n","o","p","q","r","s","t","u","v","w","x","y","z">>
UpperLetters == <<"A","B","C","D","E","F","G","H","I","J","K","L","M",
                  "N","O","P","Q","R","S","T","U","V","W","X","Y","Z">>
ToUpperCase(s) ==
    [i \in 1..Len(s) |->
        IF s[i] \in Lower
        THEN UpperLetters[CHOOSE k \in 1..26 : LowerLetters[k] = s[i]]
        ELSE s[i]]

\* variant: titles compared without regard to case
sheetExists_ignoreCase(info, sheetName) ==
    \E i \in 1..Len(info.sheets) :
        ToUpperCase(info.sheets[i].title) = ToUpperCase(sheetName)

\* spreadsheetInfo.sheets.some((sheet) => sheet.title === sheetName)
sheetExists(info, sheetName) ==
    \E i \in 1..Len(info.sheets) : info.sheets[i].title = sheetName

\* validateSheetExists with a snapshot already obtained
validateSheetExists(info, sheetName) ==
    IF ~sheetExists(info, sheetName) THEN SheetNotFound(sheetName) ELSE [ok |-> TRUE]

\* variant: the range is validated before the sheet is looked up
prepareSheetRange_rangeFirst(info, sheetName, range) ==
    LET exists == validateSheetExists(info, sheetName)
        fullRange == buildFullRange(sheetName, range)
        valid == validateA1Notation(fullRange)
    IN IF ~valid.ok THEN valid
       ELSE IF ~exists.ok THEN exists
       ELSE [ok |-> TRUE, fullRange |-> fullRange]

\* prepareSheetRange after the metadata reply: the full range or the error thrown
prepareSheetRange(info, sheetName, range) ==
    LET exists == validateSheetExists(info, sheetName)
        fullRange == buildFullRange(sheetName, range)
        valid == validateA1Notation(fullRange)
    IN IF ~exists.ok THEN exists
       ELSE IF ~valid.ok THEN valid
       ELSE [ok |-> TRUE, fullRange |-> fullRange]

-----------------------------------------------------------------------------
(* SpreadsheetClient: requests sent to the remote *)

ValuesGet(spreadsheetId, fullRange) ==
    [api |-> "values.get", spreadsheetId |-> spreadsheetId, range |-> fullRange]

\* variant: the values are stored as given
ValuesUpdate_raw(spreadsheetId, fullRange, values) ==
    [api |-> "values.update", spreadsheetId |-> spreadsheetId, range |-> fullRange,
     valueInputOption |-> "RAW", values |-> values]

ValuesUpdate(spreadsheetId, fullRange, values) ==
    [api |-> "values.update", spreadsheetId |-> spreadsheetId, range |-> fullRange,
     valueInputOption |-> "USER_ENTERED", values |-> values]

ValuesBatchUpdate(spreadsheetId, data) ==
    [api |-> "values.batchUpdate", spreadsheetId |-> spreadsheetId,
     valueInputOption |-> "USER_ENTERED", data |-> data]

\* [...new Set(names)]: the distinct names in order of first appearance
RECURSIVE Distinct(_)
Distinct(names) ==
    IF names = <<>> THEN <<>>
    ELSE LET front == Distinct(SubSeq(names, 1, Len(names) - 1))
             last == names[Len(names)]
         IN IF \E i \in 1..Len(front) : front[i] = last
            THEN front ELSE Append(front, last)

\* variant: an update that fails a check is left out of the batch
prepareBatch_skipInvalid(info, updates) ==
    LET fullRange(i) == buildFullRange(updates[i].sheetName, Some(updates[i].range))
        good == {i \in 1..Len(updates) :
                    /\ sheetExists(info, updates[i].sheetName)
                    /\ validateA1Notation(fullRange(i)).ok}
        pick[n \in 0..Len(updates)] ==
            IF n = 0 THEN <<>>
            ELSE IF n \in good
                 THEN Append(pick[n - 1],
                             [range |-> fullRange(n), values |-> updates[n].values])
                 ELSE pick[n - 1]
    IN IF good = {} /\ updates # <<>>
       THEN validateSheetExists(info, <<>>)
       ELSE [ok |-> TRUE, data |-> pick[Len(updates)]]

\* variant: the writes are coalesced per sheet, one entry for each distinct
\* sheet name, taken from the first update that names it
prepareBatch_perSheet(info, updates) ==
    LET sheetNames == Distinct([i \in 1..Len(updates) |-> updates[i].sheetName])
        missing == {i \in 1..Len(sheetNames) : ~sheetExists(info, sheetNames[i])}
        fullRange(i) == buildFullRange(updates[i].sheetName, Some(updates[i].range))
        invalid == {i \in 1..Len(updates) : ~validateA1Notation(fullRange(i)).ok}
        first(k) == Min({i \in 1..Len(updates) : updates[i].sheetName = sheetNames[k]})
    IN IF missing # {} THEN validateSheetExists(info, sheetNames[Min(missing)])
       ELSE IF invalid # {} THEN validateA1Notation(fullRange(Min(invalid)))
       ELSE [ok |-> TRUE,
             data |-> [k \in 1..Len(sheetNames) |->
                          [range |-> fullRange(first(k)),
                           values |-> updates[first(k)].values]]]

\* variant: each update is checked in turn, its sheet and then its range
prepareBatch_perUpdate(info, updates) ==
    LET fullRange(i) == buildFullRange(updates[i].sheetName, Some(updates[i].range))
        bad == {i \in 1..Len(updates) :
                   \/ ~sheetExists(info, updates[i].sheetName)
                   \/ ~validateA1Notation(fullRange(i)).ok}
    IN IF bad # {}
       THEN IF ~sheetExists(info, updates[Min(bad)].sheetName)
            THEN validateSheetExists(info, updates[Min(bad)].sheetName)
            ELSE validateA1Notation(fullRange(Min(bad)))
       ELSE [ok |-> TRUE,
             data |-> [i \in 1..Len(updates) |->
                          [range |-> fullRange(i), values |-> updates[i].values]]]

\* batchUpdateCellValues after the metadata reply: the data of the batch
\* request, or the first error thrown
prepareBatch(info, updates) ==
    LET sheetNames == Distinct([i \in 1..Len(updates) |-> updates[i].sheetName])
        missing == {i \in 1..Len(sheetNames) : ~sheetExists(info, sheetNames[i])}
        fullRange(i) == buildFullRange(updates[i].sheetName, Some(updates[i].range))
        invalid == {i \in 1..Len(updates) : ~validateA1Notation(fullRange(i)).ok}
    IN IF missing # {} THEN validateSheetExists(info, sheetNames[Min(missing)])
       ELSE IF invalid # {} THEN validateA1Notation(fullRange(Min(invalid)))
       ELSE [ok |-> TRUE,
             data |-> [i \in 1..Len(updates) |->
                          [range |-> fullRange(i), values |-> updates[i].values]]]

-----------------------------------------------------------------------------
(* SpreadsheetClient: addSheet *)

DefaultRowCount == 1000
DefaultColumnCount == 26

\* variant: the dimensions of the new sheet are always the defaults
gridProperties_defaultsOnly(options) ==
    [rowCount |-> DefaultRowCount, columnCount |-> DefaultColumnCount]

\* options?.rowCount || 1000 and options?.columnCount || 26
gridProperties(options) ==
    [rowCount    |-> IF options = None THEN DefaultRowCount
                     ELSE OrElse(options[1].rowCount, 0, DefaultRowCount),
     columnCount |-> IF options = None THEN DefaultColumnCount
                     ELSE OrElse(options[1].columnCount, 0, DefaultColumnCount)]

SheetAlreadyExists(sheetTitle) ==
    Error("SheetAlreadyExists",
          <<Lit("Sheet with title \""), Str(sheetTitle),
            Lit("\" already exists in this spreadsheet")>>)

\* the request of this.sheets.spreadsheets.batchUpdate
AddSheetRequest(spreadsheetId, sheetTitle, grid) ==
    [api |-> "spreadsheets.batchUpdate", spreadsheetId |-> spreadsheetId,
     requests |-> <<[addSheet |->
                       [properties |-> [title |-> sheetTitle,
                                        gridProperties |-> grid]]]>>]

\* variant: the title is not looked up in the snapshot
prepareAddSheet_unchecked(info, sheetTitle, options) ==
    [ok |-> TRUE,
     request |-> AddSheetRequest(info.spreadsheetId, sheetTitle, gridProperties(options))]

\* addSheet after the metadata reply: the request of the mutation, or the
\* error thrown
prepareAddSheet(info, sheetTitle, options) ==
    IF sheetExists(info, sheetTitle) THEN SheetAlreadyExists(sheetTitle)
    ELSE [ok |-> TRUE,
          request |-> AddSheetRequest(info.spreadsheetId, sheetTitle,
                                      gridProperties(options))]

SheetCreationFailed ==
    Error("SheetCreationFailed", <<Lit("Failed to retrieve created sheet properties")>>)

\* what reading .addSheet of an undefined replies[0] throws
UndefinedReply ==
    Error("TypeError",
          <<Lit("Cannot read properties of undefined (reading 'addSheet')")>>)

\* response.data.replies?.[0].addSheet?.properties : the properties, absent,
\* or the TypeError of reading a property of undefined
createdSheet(data) ==
    IF data.replies = None THEN [ok |-> TRUE, properties |-> None]
    ELSE IF data.replies[1] = <<>> THEN UndefinedReply
    ELSE IF data.replies[1][1].addSheet = None THEN [ok |-> TRUE, properties |-> None]
    ELSE [ok |-> TRUE, properties |-> data.replies[1][1].addSheet[1].properties]

\* variant: the descriptor repeats what was requested
addSheetOutcome_fromRequest(data, sheetTitle, grid) ==
    LET sheet == createdSheet(data)
    IN IF ~sheet.ok THEN sheet
       ELSE IF sheet.properties = None THEN SheetCreationFailed
       ELSE [ok |-> TRUE,
             value |-> [title |-> sheetTitle, sheetId |-> 0,
                        rowCount |-> grid.rowCount, columnCount |-> grid.columnCount]]

\* variant: the fallbacks replace absent fields only (?? in place of ||)
addSheetOutcome_absentOnly(data, sheetTitle, grid) ==
    LET sheet == createdSheet(data)
    IN IF ~sheet.ok THEN sheet
       ELSE IF sheet.properties = None THEN SheetCreationFailed
       ELSE LET p == sheet.properties[1]
                g == p.gridProperties
            IN [ok |-> TRUE,
                value |->
                   [title       |-> IF p.title = None THEN sheetTitle ELSE p.title[1],
                    sheetId     |-> IF p.sheetId = None THEN 0 ELSE p.sheetId[1],
                    rowCount    |-> IF g = None \/ g[1].rowCount = None
                                    THEN grid.rowCount ELSE g[1].rowCount[1],
                    columnCount |-> IF g = None \/ g[1].columnCount = None
                                    THEN grid.columnCount ELSE g[1].columnCount[1]]]

\* addSheet after the reply of the mutation: the descriptor returned, or the
\* error thrown
addSheetOutcome(data, sheetTitle, grid) ==
    LET sheet == createdSheet(data)
    IN IF ~sheet.ok THEN sheet
       ELSE IF sheet.properties = None THEN SheetCreationFailed
       ELSE LET p == sheet.properties[1]
            IN [ok |-> TRUE,
                value |->
                   [title       |-> OrElse(p.title, <<>>, sheetTitle),
                    sheetId     |-> OrElse(p.sheetId, 0, 0),
                    rowCount    |-> IF p.gridProperties = None THEN grid.rowCount
                                    ELSE OrElse(p.gridProperties[1].rowCount, 0,
                                                grid.rowCount),
                    columnCount |-> IF p.gridProperties = None THEN grid.columnCount
                                    ELSE OrElse(p.gridProperties[1].columnCount, 0,
                                                grid.columnCount)]]

-----------------------------------------------------------------------------
(* Inputs of the model *)

SpreadsheetId == <<"i","d","1">>

Sheet1 == <<"S","1">>
Sheet2 == <<"S","2">>

\* sheet names passed by callers: two that exist in Remote1, one that differs
\* from an existing title only by case, one that exists nowhere
SheetNames == {Sheet1, Sheet2, <<"s","1">>, <<"Q">>}

SheetProps(title, sheetId, rowCount, columnCount) ==
    [title |-> title, sheetId |-> sheetId, rowCount |-> rowCount,
     columnCount |-> columnCount]

\* replies of spreadsheets.get
Remote1 == [title  |-> Some(<<"T">>),
            sheets |-> Some(<<SheetProps(Some(Sheet1), Some(0), Some(100), Some(20)),
                              SheetProps(Some(Sheet2), Some(1), Some(50), Some(10))>>)]
Remote2 == [title |-> None, sheets |-> None]
Remote3 == [title  |-> Some(<<>>),
            sheets |-> Some(<<SheetProps(Some(Sheet2), None, None, None),
                              SheetProps(None, Some(7), Some(0), Some(3))>>)]
Remotes == {Remote1, Remote2, Remote3}

\* errors the remote can reject a call with
RemoteErrors == {Error("RemoteCallFailed", <<Lit("API Error")>>),
                 Error("RemoteCallFailed", <<Lit("The caller does not have permission")>>)}

\* env.MAX_RESPONSE_SIZE
EnvMaxResponseSizes == {None, Some(<<"1","0","0">>), Some(<<"2","5">>)}

Repeat(c, n) == [i \in 1..n |-> c]

Matrix2x2 == <<<<StringCell(<<"A","1">>), StringCell(<<"B","1">>)>>,
               <<StringCell(<<"A","2">>), StringCell(<<"B","2">>)>>>>
Matrix26  == <<<<StringCell(<<"A","1">>), StringCell(<<"B","1">>)>>,
               <<StringCell(<<"A","2">>), StringCell(<<"B","2","2">>)>>>>
Matrix150 == <<<<StringCell(Repeat("X", 144))>>>>
MatrixMixed == <<<<NumberCell(12), BooleanCell(FALSE), StringCell(<<"\"">>)>>, <<>>>>

\* response.data.values of values.get
ValuesReplies == {None, Some(<<>>), Some(Matrix2x2), Some(Matrix26),
                  Some(Matrix150), Some(MatrixMixed)}

\* values written by callers
WriteValues == {<<<<StringCell(<<"=","1">>), NumberCell(2)>>>>,
                <<<<StringCell(<<"x">>)>>, <<BooleanCell(TRUE)>>>>}

Counts == {None, Some(0), Some(2)}
UpdateReplies == [updatedRows : Counts, updatedCells : Counts]
BatchUpdateReplies ==
    {[totalUpdatedCells |-> c, totalUpdatedColumns |-> c, totalUpdatedRows |-> r] :
        c \in Counts, r \in {None, Some(1)}}

\* the sheetId the remote gives to the next sheet it creates
NewSheetId(data) == 100 + (IF data.sheets = None THEN 0 ELSE Len(data.sheets[1]))

\* options of addSheet: absent, or each dimension unspecified, 0 or positive
AddSheetOptions ==
    {None,
     Some([rowCount |-> None, columnCount |-> Some(3)]),
     Some([rowCount |-> Some(0), columnCount |-> Some(3)]),
     Some([rowCount |-> Some(5), columnCount |-> Some(0)]),
     Some([rowCount |-> Some(5), columnCount |-> None])}

\* response.data of spreadsheets.batchUpdate for an addSheet request: the four
\* shapes without properties, and properties with each field absent, present
\* with the empty title or 0, or present with the value of the new sheet
AddSheetReplies(request, sheetId) ==
    LET properties == request.requests[1].addSheet.properties
        grid == properties.gridProperties
    IN {[replies |-> None],
        [replies |-> Some(<<>>)],
        [replies |-> Some(<<[addSheet |-> None]>>)],
        [replies |-> Some(<<[addSheet |-> Some([properties |-> None])]>>)]}
       \cup
       {[replies |-> Some(<<[addSheet |-> Some([properties |->
            Some([title |-> t, sheetId |-> i, gridProperties |-> g])])]>>)] :
          t \in {None, Some(<<>>), Some(properties.title)},
          i \in {None, Some(0), Some(sheetId)},
          g \in {None,
                 Some([rowCount |-> None, columnCount |-> Some(grid.columnCount)]),
                 Some([rowCount |-> Some(0), columnCount |-> Some(0)]),
                 Some([rowCount |-> Some(grid.rowCount),
                       columnCount |-> Some(grid.columnCount)])}}

RangeAlphabet == {"A", "1", ":", "!"}

\* ranges of the documentation and the tests, and ranges that name a sheet
CuratedRanges ==
    {<<"A","1",":","B","2">>,
     <<"I","n","v","a","l","i","d",":","R","a","n","g","e">>,
     <<"S","1","!","A","1",":","B","2">>,
     <<"S","2","!","A","1">>,
     <<"S","1","!">>,
     <<"S","1","!","A","1","!","b">>,
     <<"S","1","!","!","b">>,
     <<"a","1">>}

RangeTexts == SeqsUpTo(RangeAlphabet, MaxRangeLen) \cup CuratedRanges

\* optional range argument of getSheetValues
RangeArgs == {None} \cup {Some(r) : r \in RangeTexts}

BatchRanges == {<<>>, <<"A","1">>, <<"A","1",":","b">>,
                <<"S","1","!","A","1","!","b">>}
BatchSheetNames == {Sheet1, Sheet2, <<"Q">>}
BatchUpdates ==
    [sheetName : BatchSheetNames, range : BatchRanges,
     values : {<<<<StringCell(<<"x">>)>>>>}]
BatchArgs == UNION {[1..k -> BatchUpdates] : k \in 0..MaxUpdates}

-----------------------------------------------------------------------------
(* State machine of the client: one operation in flight; every remote call  *)
(* is an await, so an operation is a start step and one step per reply      *)

NoOp == [name |-> "none", spreadsheetId |-> <<>>, sheetName |-> <<>>,
         range |-> None, values |-> <<>>, updates |-> <<>>,
         sheetTitle |-> <<>>, options |-> None]

Pending == {"spreadsheets.get", "values.get", "values.update", "values.batchUpdate",
            "spreadsheets.batchUpdate"}

\* no tool execution in flight
NoTool == [name |-> "none", spreadsheetUrl |-> <<>>, sheetName |-> <<>>,
           range |-> None, values |-> <<>>, updates |-> <<>>,
           sheetTitle |-> <<>>, rowCount |-> None, columnCount |-> None]

ToolIdle ==
    /\ tool = NoTool
    /\ toolResult = None

\* the callers that may have an addSheet in flight at the same time
Callers == {1, 2}

\* a caller without an operation in flight
NoFlight == [pc |-> "idle", sheetTitle |-> <<>>, options |-> None,
             served |-> None, spreadsheetInfo |-> None, request |-> None,
             issuedOver |-> {}, result |-> None]

NoFlights == flights = [c \in Callers |-> NoFlight]

ClientIdle ==
    /\ pc = "idle"
    /\ op = NoOp
    /\ spreadsheetInfo = None
    /\ calls = <<>>
    /\ reply = None
    /\ result = None

ClientInit ==
    /\ remote \in Remotes
    /\ \E e \in EnvMaxResponseSizes : MAX_RESPONSE_SIZE = configuredMaxResponseSize(e)
    /\ created = {}
    /\ ClientIdle

\* every operation starts with getSpreadsheetInfo, which issues spreadsheets.get
Start(o) ==
    /\ pc = "idle"
    /\ op' = o
    /\ calls' = <<MetadataGet(o.spreadsheetId)>>
    /\ pc' = "spreadsheets.get"
    /\ UNCHANGED <<spreadsheetInfo, reply, result, MAX_RESPONSE_SIZE, remote, created>>
    /\ UNCHANGED <<resolverVars, rangeVars>>

\* the operation throws e
Throw(e) ==
    /\ result' = Some(e)
    /\ pc' = "done"
    /\ UNCHANGED calls

\* the operation returns v
Return(v) ==
    /\ result' = Some([ok |-> TRUE, value |-> v])
    /\ pc' = "done"
    /\ UNCHANGED calls

\* the operation issues the next remote call and awaits its reply
Issue(call) ==
    /\ calls' = Append(calls, call)
    /\ pc' = call.api
    /\ UNCHANGED result

getSheetValues_call(sheetName, range) ==
    /\ Start([NoOp EXCEPT !.name = "getSheetValues", !.spreadsheetId = SpreadsheetId,
                          !.sheetName = sheetName, !.range = range])
    /\ UNCHANGED <<toolVars, concurrentVars>>

\* spreadsheets.get replied: prepareSheetRange, then values.get
getSheetValues_prepared ==
    /\ pc = "spreadsheets.get"
    /\ op.name = "getSheetValues"
    /\ LET info == getSpreadsheetInfo(op.spreadsheetId, remote)
           prepared == prepareSheetRange(info, op.sheetName, op.range)
       IN /\ reply' = Some([ok |-> TRUE, data |-> remote])
          /\ spreadsheetInfo' = Some(info)
          /\ IF prepared.ok
             THEN Issue(ValuesGet(op.spreadsheetId, prepared.fullRange))
             ELSE Throw(prepared)
    /\ UNCHANGED <<op, MAX_RESPONSE_SIZE, remote, created,
                 resolverVars, rangeVars, toolVars, concurrentVars>>

\* variant: a response of exactly the maximum size is refused
checkResponseSize_atLeast(values, max) ==
    LET responseSize == JsonLen(values)
    IN IF responseSize >= max
       THEN ResponseTooLarge(responseSize)
       ELSE [ok |-> TRUE, value |-> values]

\* variant: the message names the maximum in place of the measured size
checkResponseSize_citesMax(values, max) ==
    LET responseSize == JsonLen(values)
    IN IF responseSize > max
       THEN ResponseTooLarge(max)
       ELSE [ok |-> TRUE, value |-> values]

\* the size check of getSheetValues
checkResponseSize(values, max) ==
    LET responseSize == JsonLen(values)
    IN IF responseSize > max
       THEN ResponseTooLarge(responseSize)
       ELSE [ok |-> TRUE, value |-> values]

\* values.get replied
getSheetValues_replied ==
    /\ pc = "values.get"
    /\ \E data \in ValuesReplies :
         LET values == IF data = None THEN <<>> ELSE data[1]
             checked == checkResponseSize(values, MAX_RESPONSE_SIZE)
         IN /\ reply' = Some([ok |-> TRUE, data |-> data])
            /\ IF checked.ok THEN Return(checked.value) ELSE Throw(checked)
    /\ UNCHANGED <<op, spreadsheetInfo, MAX_RESPONSE_SIZE, remote, created,
                 resolverVars, rangeVars, toolVars, concurrentVars>>

updateCellValues_call(sheetName, range, values) ==
    /\ Start([NoOp EXCEPT !.name = "updateCellValues", !.spreadsheetId = SpreadsheetId,
                          !.sheetName = sheetName, !.range = Some(range),
                          !.values = values])
    /\ UNCHANGED <<toolVars, concurrentVars>>

\* spreadsheets.get replied: prepareSheetRange, then values.update
updateCellValues_prepared ==
    /\ pc = "spreadsheets.get"
    /\ op.name = "updateCellValues"
    /\ LET info == getSpreadsheetInfo(op.spreadsheetId, remote)
           prepared == prepareSheetRange(info, op.sheetName, op.range)
       IN /\ reply' = Some([ok |-> TRUE, data |-> remote])
          /\ spreadsheetInfo' = Some(info)
          /\ IF prepared.ok
             THEN Issue(ValuesUpdate(op.spreadsheetId, prepared.fullRange, op.values))
             ELSE Throw(prepared)
    /\ UNCHANGED <<op, MAX_RESPONSE_SIZE, remote, created,
                 resolverVars, rangeVars, toolVars, concurrentVars>>

updateOutcome(data) ==
    [updatedRows  |-> OrElse(data.updatedRows, 0, 0),
     updatedCells |-> OrElse(data.updatedCells, 0, 0)]

\* values.update replied
updateCellValues_replied ==
    /\ pc = "values.update"
    /\ \E data \in UpdateReplies :
         /\ reply' = Some([ok |-> TRUE, data |-> data])
         /\ Return(updateOutcome(data))
    /\ UNCHANGED <<op, spreadsheetInfo, MAX_RESPONSE_SIZE, remote, created,
                 resolverVars, rangeVars, toolVars, concurrentVars>>

batchUpdateCellValues_call(updates) ==
    /\ Start([NoOp EXCEPT !.name = "batchUpdateCellValues",
                          !.spreadsheetId = SpreadsheetId, !.updates = updates])
    /\ UNCHANGED <<toolVars, concurrentVars>>

\* spreadsheets.get replied: check the sheets, build the data, then batchUpdate
batchUpdateCellValues_prepared ==
    /\ pc = "spreadsheets.get"
    /\ op.name = "batchUpdateCellValues"
    /\ LET info == getSpreadsheetInfo(op.spreadsheetId, remote)
           prepared == prepareBatch(info, op.updates)
       IN /\ reply' = Some([ok |-> TRUE, data |-> remote])
          /\ spreadsheetInfo' = Some(info)
          /\ IF prepared.ok
             THEN Issue(ValuesBatchUpdate(op.spreadsheetId, prepared.data))
             ELSE Throw(prepared)
    /\ UNCHANGED <<op, MAX_RESPONSE_SIZE, remote, created,
                 resolverVars, rangeVars, toolVars, concurrentVars>>

batchOutcome(data) ==
    [totalUpdatedCells   |-> OrElse(data.totalUpdatedCells, 0, 0),
     totalUpdatedColumns |-> OrElse(data.totalUpdatedColumns, 0, 0),
     totalUpdatedRows    |-> OrElse(data.totalUpdatedRows, 0, 0)]

\* values.batchUpdate replied
batchUpdateCellValues_replied ==
    /\ pc = "values.batchUpdate"
    /\ \E data \in BatchUpdateReplies :
         /\ reply' = Some([ok |-> TRUE, data |-> data])
         /\ Return(batchOutcome(data))
    /\ UNCHANGED <<op, spreadsheetInfo, MAX_RESPONSE_SIZE, remote, created,
                 resolverVars, rangeVars, toolVars, concurrentVars>>

getSpreadsheetInfo_call(spreadsheetId) ==
    /\ Start([NoOp EXCEPT !.name = "getSpreadsheetInfo", !.spreadsheetId = spreadsheetId])
    /\ UNCHANGED <<toolVars, concurrentVars>>

\* spreadsheets.get replied to getSpreadsheetInfo called on its own
getSpreadsheetInfo_replied ==
    /\ pc = "spreadsheets.get"
    /\ op.name = "getSpreadsheetInfo"
    /\ LET info == getSpreadsheetInfo(op.spreadsheetId, remote)
       IN /\ reply' = Some([ok |-> TRUE, data |-> remote])
          /\ spreadsheetInfo' = Some(info)
          /\ Return(info)
    /\ UNCHANGED <<op, MAX_RESPONSE_SIZE, remote, created,
                 resolverVars, rangeVars, toolVars, concurrentVars>>

addSheet_call(sheetTitle, options) ==
    /\ Start([NoOp EXCEPT !.name = "addSheet", !.spreadsheetId = SpreadsheetId,
                          !.sheetTitle = sheetTitle, !.options = options])
    /\ UNCHANGED <<toolVars, concurrentVars>>

\* spreadsheets.get replied: look the title up, then spreadsheets.batchUpdate
addSheet_prepared ==
    /\ pc = "spreadsheets.get"
    /\ op.name = "addSheet"
    /\ LET info == getSpreadsheetInfo(op.spreadsheetId, remote)
           prepared == prepareAddSheet(info, op.sheetTitle, op.options)
       IN /\ reply' = Some([ok |-> TRUE, data |-> remote])
          /\ spreadsheetInfo' = Some(info)
          /\ IF prepared.ok THEN Issue(prepared.request) ELSE Throw(prepared)
    /\ UNCHANGED <<op, MAX_RESPONSE_SIZE, remote, created,
                 resolverVars, rangeVars, toolVars, concurrentVars>>

\* the remote spreadsheet once it has applied the addSheet request
applyAddSheet(data, request) ==
    LET properties == request.requests[1].addSheet.properties
        sheets == IF data.sheets = None THEN <<>> ELSE data.sheets[1]
    IN [data EXCEPT
           !.sheets = Some(Append(sheets,
                                  SheetProps(Some(properties.title),
                                             Some(NewSheetId(data)),
                                             Some(properties.gridProperties.rowCount),
                                             Some(properties.gridProperties.columnCount))))]

\* spreadsheets.batchUpdate replied: the sheet exists at the remote from now on
addSheet_replied ==
    /\ pc = "spreadsheets.batchUpdate"
    /\ LET request == calls[Len(calls)]
           grid == request.requests[1].addSheet.properties.gridProperties
       IN \E data \in AddSheetReplies(request, NewSheetId(remote)) :
            LET outcome == addSheetOutcome(data, op.sheetTitle, grid)
            IN /\ reply' = Some([ok |-> TRUE, data |-> data])
               /\ remote' = applyAddSheet(remote, request)
               /\ IF outcome.ok THEN Return(outcome.value) ELSE Throw(outcome)
    /\ UNCHANGED <<op, spreadsheetInfo, MAX_RESPONSE_SIZE, created,
                 resolverVars, rangeVars, toolVars, concurrentVars>>

\* variant: a rejected call is issued once more
RemoteCallFails_retry ==
    /\ pc \in Pending
    /\ \E e \in RemoteErrors :
         /\ reply' = Some(e)
         /\ IF Len(calls) < 3
            THEN Issue(calls[Len(calls)])
            ELSE Throw(e)
    /\ UNCHANGED <<op, spreadsheetInfo, MAX_RESPONSE_SIZE, remote, created,
                 resolverVars, rangeVars, toolVars, concurrentVars>>

\* the pending remote call rejects: the catch block rethrows the same error
RemoteCallFails ==
    /\ pc \in Pending
    /\ \E e \in RemoteErrors :
         /\ reply' = Some(e)
         /\ Throw(e)
    /\ UNCHANGED <<op, spreadsheetInfo, MAX_RESPONSE_SIZE, remote, created,
                 resolverVars, rangeVars, toolVars, concurrentVars>>

\* the settled promise is consumed: nothing of the operation is kept by the
\* client; the history of the sheets addSheet returned is extended
Consume ==
    /\ pc' = "idle"
    /\ op' = NoOp
    /\ spreadsheetInfo' = None
    /\ calls' = <<>>
    /\ reply' = None
    /\ result' = None
    /\ created' = IF op.name = "addSheet" /\ result # None /\ result[1].ok
                  THEN created \cup {op.sheetTitle} ELSE created
    /\ UNCHANGED <<MAX_RESPONSE_SIZE, remote, resolverVars, rangeVars>>

\* the caller of the client has consumed the settled promise
Settle ==
    /\ pc = "done"
    /\ tool = NoTool
    /\ Consume
    /\ UNCHANGED <<toolVars, concurrentVars>>

-----------------------------------------------------------------------------
(* Specification of the client *)

NotRun == None

Init ==
    /\ url = <<>>
    /\ resolved = NotRun
    /\ rangeArg = <<>>
    /\ rangeChecked = NotRun
    /\ ClientInit
    /\ ToolIdle
    /\ NoFlights

Next ==
    \/ \E sheetName \in SheetNames, range \in RangeArgs :
          getSheetValues_call(sheetName, range)
    \/ getSheetValues_prepared
    \/ getSheetValues_replied
    \/ \E sheetName \in SheetNames, range \in RangeTexts, values \in WriteValues :
          updateCellValues_call(sheetName, range, values)
    \/ updateCellValues_prepared
    \/ updateCellValues_replied
    \/ \E updates \in BatchArgs : batchUpdateCellValues_call(updates)
    \/ batchUpdateCellValues_prepared
    \/ batchUpdateCellValues_replied
    \/ RemoteCallFails
    \/ Settle

Spec == Init /\ [][Next]_vars

-----------------------------------------------------------------------------
(* Specification of the identifier resolver: the inputs are an optional    *)
(* text in front, an optional URL prefix and a tail over the ID alphabet,  *)
(* the boundary characters and a character outside both                    *)

FrontAlphabet == {"x", "/"}
TailAlphabet == {"a", "Z", "0", "-", "_", "/", "?", "#"}

\* the prefix with the scheme http instead of https
HttpPrefix == <<"h","t","t","p">> \o SubSeq(UrlPrefix, 6, Len(UrlPrefix))

UrlInputs ==
    {front \o middle \o tail :
        front \in SeqsUpTo(FrontAlphabet, MaxFront),
        middle \in {<<>>, UrlPrefix, HttpPrefix},
        tail \in SeqsUpTo(TailAlphabet, MaxTail)}
    \cup
    {UrlPrefix \o first \o UrlPrefix \o second :
        first \in SeqsUpTo(TailAlphabet, 1),
        second \in SeqsUpTo(TailAlphabet, 2)}

FixedClient ==
    /\ remote = Remote1
    /\ MAX_RESPONSE_SIZE = configuredMaxResponseSize(None)
    /\ created = {}
    /\ ClientIdle

InitResolver ==
    /\ url \in UrlInputs
    /\ resolved = NotRun
    /\ rangeArg = <<>>
    /\ rangeChecked = NotRun
    /\ FixedClient
    /\ ToolIdle
    /\ NoFlights

extractSpreadsheetId_call ==
    /\ resolved = NotRun
    /\ resolved' = Some(extractSpreadsheetId(url))
    /\ UNCHANGED <<url, rangeVars, clientVars, toolVars, concurrentVars>>

NextResolver == extractSpreadsheetId_call

SpecResolver == InitResolver /\ [][NextResolver]_vars

-----------------------------------------------------------------------------
(* Specification of the A1 check: isValidRange on a sub-range, and          *)
(* validateA1Notation on that sub-range qualified with a sheet name         *)

SubRangeAlphabet == {"A", "Z", "0", "9", ":", "a", "!"}

SubRangeTexts ==
    SeqsUpTo(SubRangeAlphabet, MaxSubRangeLen)
    \cup {<<"A","1",":","B","2">>, <<"A","1",":","B">>, <<"A",":","B","1">>,
          <<"1","A">>, <<"A","1">>,
          <<"I","n","v","a","l","i","d",":","R","a","n","g","e">>}

NotChecked == [isValid |-> None, validated |-> None]

InitRange ==
    /\ url = <<>>
    /\ resolved = NotRun
    /\ rangeArg \in SubRangeTexts
    /\ rangeChecked = NotChecked
    /\ FixedClient
    /\ ToolIdle
    /\ NoFlights

isValidRange_call ==
    /\ rangeChecked.isValid = None
    /\ rangeChecked' = [rangeChecked EXCEPT !.isValid = Some(isValidRange(rangeArg))]
    /\ UNCHANGED <<rangeArg, resolverVars, clientVars, toolVars, concurrentVars>>

validateA1Notation_call ==
    /\ rangeChecked.validated = None
    /\ rangeChecked' =
          [rangeChecked EXCEPT
              !.validated = Some(validateA1Notation(Sheet1 \o <<"!">> \o rangeArg))]
    /\ UNCHANGED <<rangeArg, resolverVars, clientVars, toolVars, concurrentVars>>

NextRange == isValidRange_call \/ validateA1Notation_call

SpecRange == InitRange /\ [][NextRange]_vars

-----------------------------------------------------------------------------
(* Specification of the five operations of the client on a spreadsheet that *)
(* has no other writer: a sheet addSheet has created stays at the remote    *)

OtherId == <<"i","d","2">>
SpreadsheetIds == {SpreadsheetId, OtherId}

\* a title of Remote1 and a title of no initial spreadsheet
SheetTitles == {Sheet1, <<"Q">>}

SheetRanges == {None, Some(<<"A","1">>), Some(<<"a","1">>)}

SheetUpdates ==
    [sheetName : SheetTitles, range : {<<"A","1">>, <<"a","1">>},
     values : {<<<<StringCell(<<"x">>)>>>>}]

InitSheets ==
    /\ url = <<>>
    /\ resolved = NotRun
    /\ rangeArg = <<>>
    /\ rangeChecked = NotRun
    /\ remote \in Remotes
    /\ MAX_RESPONSE_SIZE = configuredMaxResponseSize(None)
    /\ created = {}
    /\ ClientIdle
    /\ ToolIdle
    /\ NoFlights

NextSheets ==
    \/ \E spreadsheetId \in SpreadsheetIds : getSpreadsheetInfo_call(spreadsheetId)
    \/ getSpreadsheetInfo_replied
    \/ \E sheetName \in SheetTitles, range \in SheetRanges :
          getSheetValues_call(sheetName, range)
    \/ getSheetValues_prepared
    \/ getSheetValues_replied
    \/ \E u \in SheetUpdates : updateCellValues_call(u.sheetName, u.range, u.values)
    \/ updateCellValues_prepared
    \/ updateCellValues_replied
    \/ \E updates \in UNION {[1..k -> SheetUpdates] : k \in 1..MaxUpdates} :
          batchUpdateCellValues_call(updates)
    \/ batchUpdateCellValues_prepared
    \/ batchUpdateCellValues_replied
    \/ \E sheetTitle \in SheetTitles, options \in AddSheetOptions :
          addSheet_call(sheetTitle, options)
    \/ addSheet_prepared
    \/ addSheet_replied
    \/ RemoteCallFails
    \/ Settle

SpecSheets == InitSheets /\ [][NextSheets]_vars

-----------------------------------------------------------------------------
(* Properties of the identifier resolver (checked under SpecResolver) *)

AllIn(s, cls) == \A i \in 1..Len(s) : s[i] \in cls

\* a non-empty text over letters, digits, '-' and '_'
IsBareId(s) == Len(s) >= 1 /\ AllIn(s, IdClass)

\* the sharing-URL prefix stands at index i of s
PrefixAt(s, i) ==
    /\ i + Len(UrlPrefix) - 1 <= Len(s)
    /\ SubSeq(s, i, i + Len(UrlPrefix) - 1) = UrlPrefix

\* the IDs for which s is the sharing URL of ID: the prefix, the ID, and then
\* the end of the input, a '/' or a '?'
SharingUrlIds(s) ==
    {SubSeq(s, Len(UrlPrefix) + 1, e) : e \in
        {e \in (Len(UrlPrefix) + 1)..Len(s) :
            /\ PrefixAt(s, 1)
            /\ IsBareId(SubSeq(s, Len(UrlPrefix) + 1, e))
            /\ (e = Len(s) \/ s[e + 1] \in {"/", "?"})}}

\* somewhere in s the prefix is followed by at least one ID character
UrlOccurs(s) ==
    \E i \in 1..Len(s) :
        /\ PrefixAt(s, i)
        /\ i + Len(UrlPrefix) <= Len(s)
        /\ s[i + Len(UrlPrefix)] \in IdClass

\* somewhere in s the prefix is followed by an ID and then the end, '/' or '?'
BoundedUrlOccurs(s) ==
    \E i \in 1..Len(s) : \E e \in (i + Len(UrlPrefix))..Len(s) :
        /\ PrefixAt(s, i)
        /\ IsBareId(SubSeq(s, i + Len(UrlPrefix), e))
        /\ (e = Len(s) \/ s[e + 1] \in {"/", "?"})

MatchesNoPattern(s) == ~BoundedUrlOccurs(s) /\ ~UrlOccurs(s) /\ ~IsBareId(s)

Resolved(id) == [ok |-> TRUE, id |-> id]

RejectedAsInvalidIdentifier(r) ==
    /\ ~r.ok
    /\ r.message = <<Lit("Invalid Google Spreadsheet URL or ID")>>

\* C1: a sharing URL (ending behind the ID, or continued with '/' or '?') and a
\* bare ID resolve to exactly the ID; an input that matches none of the three
\* patterns fails with 'Invalid Google Spreadsheet URL or ID'
C1_ResolveExtractsId ==
    resolved # NotRun =>
        /\ \A id \in SharingUrlIds(url) : resolved[1] = Resolved(id)
        /\ IsBareId(url) => resolved[1] = Resolved(url)
        /\ MatchesNoPattern(url) => RejectedAsInvalidIdentifier(resolved[1])

\* a sharing URL continued behind its ID has been resolved to the ID
C1_Witness ==
    /\ resolved # NotRun
    /\ \E id \in SharingUrlIds(url) :
          /\ Len(url) > Len(UrlPrefix) + Len(id)
          /\ resolved[1] = Resolved(id)

\* C2 as stated: an input is accepted only if it is a sharing URL from its
\* first character up to the boundary behind the ID, or a bare ID as a whole
C2_NoPartialMatches ==
    (resolved # NotRun /\ resolved[1].ok) =>
        (SharingUrlIds(url) # {} \/ IsBareId(url))

\* C2 amended: only the bare-token pattern has to match the whole input; the
\* URL patterns match anywhere, so an input is accepted exactly if somewhere in
\* it the prefix is followed by an ID character or if it is a bare ID as a
\* whole, and it is rejected with InvalidIdentifier otherwise
C2_PartialUrlMatchesAccepted ==
    resolved # NotRun =>
        /\ resolved[1].ok <=> (UrlOccurs(url) \/ IsBareId(url))
        /\ ~resolved[1].ok => RejectedAsInvalidIdentifier(resolved[1])

\* an input with text in front of the URL, or a character other than '/' and
\* '?' behind the ID, has been accepted
C2_Witness ==
    /\ resolved # NotRun
    /\ resolved[1].ok
    /\ SharingUrlIds(url) = {}
    /\ ~IsBareId(url)

-----------------------------------------------------------------------------
(* Properties of the A1 check (checked under SpecRange) *)

\* one or more uppercase letters followed by one or more digits
IsCellRef(s) ==
    \E n \in 1..(Len(s) - 1) :
        /\ AllIn(SubSeq(s, 1, n), Upper)
        /\ AllIn(SubSeq(s, n + 1, Len(s)), Digit)

\* a cell reference, or two cell references joined by a single ':'
IsA1SubRange(s) ==
    \/ IsCellRef(s)
    \/ \E p \in 1..Len(s) :
          /\ s[p] = ":"
          /\ IsCellRef(SubSeq(s, 1, p - 1))
          /\ IsCellRef(SubSeq(s, p + 1, Len(s)))

RejectedAsInvalidRange(r, range) ==
    /\ ~r.ok
    /\ r.message = <<Lit("Invalid A1 notation range: "), Str(range)>>

ExamplesAccepted == {<<"A","1">>, <<"A","1",":","B","2">>}
ExamplesRejected ==
    {<<"1","A">>, <<"A","1",":","B">>, <<"A",":","B","1">>,
     <<"I","n","v","a","l","i","d",":","R","a","n","g","e">>}

\* C5: isValidRange accepts a sub-range exactly if it is a cell reference or
\* two cell references joined by one ':'; A1 and A1:B2 pass, and 1A, A1:B,
\* A:B1 and Invalid:Range are rejected with 'Invalid A1 notation range: <sub-range>'
C5_ValidRangeIffA1Form ==
    /\ rangeChecked.isValid # None =>
          /\ rangeChecked.isValid[1] <=> IsA1SubRange(rangeArg)
          /\ rangeArg \in ExamplesAccepted => rangeChecked.isValid[1]
          /\ rangeArg \in ExamplesRejected => ~rangeChecked.isValid[1]
    /\ rangeChecked.validated # None =>
          /\ rangeArg \in ExamplesAccepted => rangeChecked.validated[1].ok
          /\ rangeArg \in ExamplesRejected =>
                RejectedAsInvalidRange(rangeChecked.validated[1], rangeArg)

\* a sub-range with a cell reference in front of the ':' and none behind it
\* has been rejected by both functions
C5_Witness ==
    /\ rangeArg = <<"A","1",":","B">>
    /\ rangeChecked.isValid = Some(FALSE)
    /\ rangeChecked.validated # None
    /\ RejectedAsInvalidRange(rangeChecked.validated[1], rangeArg)

-----------------------------------------------------------------------------
(* Tools: execute of get_sheets, get_sheet_values, update_cells,            *)
(* batch_update_cells and add_sheet                                         *)

\* a value received where an array is expected: an array, or something else
Arr(items) == [isArray |-> TRUE, items |-> items]
NotArray == [isArray |-> FALSE, items |-> <<>>]

\* the any[][] that the client receives from a checked values argument
Rows(values) == [i \in 1..Len(values.items) |-> values.items[i].items]

\* throw new Error(message) in a tool
ToolError(message) == Error("Error", message)

\* { content: [{ type: "text", text }] }
TextResult(text) ==
    [content |-> <<[type |-> "text", text |-> text]>>, isError |-> None]

\* { content: [{ type: "text", text: `Error: ${errorMessage}` }], isError: true }
ErrorResult(error) ==
    [content |-> <<[type |-> "text", text |-> <<Lit("Error: ")>> \o error.message]>>,
     isError |-> Some(TRUE)]

\* how the promise of execute settles
Fulfilled(value) == [settled |-> "fulfilled", value |-> value]
Rejected(error) == [settled |-> "rejected", value |-> error]

\* variant: the error is logged and thrown again
catch_rethrown(error) == Rejected(error)

\* catch (error) { ... return { content, isError: true } }
catch(error) == Fulfilled(ErrorResult(error))

Whitespace == {" ", "\t", "\n"}

\* sheetTitle.trim() === ""
IsBlank(sheetTitle) == \A i \in 1..Len(sheetTitle) : sheetTitle[i] \in Whitespace

\* variant: only the outer array is checked
UpdateCellsTool_validate_outerOnly(values) ==
    IF ~values.isArray \/ values.items = <<>>
    THEN ToolError(<<Lit("Values must be a non-empty 2D array")>>)
    ELSE [ok |-> TRUE]

\* UpdateCellsTool.execute: validate input values
UpdateCellsTool_validate(values) ==
    IF ~values.isArray \/ values.items = <<>>
    THEN ToolError(<<Lit("Values must be a non-empty 2D array")>>)
    ELSE IF \E i \in 1..Len(values.items) :
               ~values.items[i].isArray \/ values.items[i].items = <<>>
    THEN ToolError(<<Lit("Each row in values must be a non-empty array")>>)
    ELSE [ok |-> TRUE]

\* BatchUpdateCellsTool.execute: the checks of one update
validateUpdate(update) ==
    LET values == update.values
        bad == {i \in 1..Len(values.items) :
                   ~values.items[i].isArray \/ values.items[i].items = <<>>}
    IN IF ~values.isArray \/ values.items = <<>>
       THEN ToolError(<<Lit("Values for range "), Str(update.range),
                        Lit(" must be a non-empty 2D array")>>)
       ELSE IF bad = {} THEN [ok |-> TRUE]
       ELSE IF ~values.items[Min(bad)].isArray
       THEN ToolError(<<Lit("Each row for range "), Str(update.range),
                        Lit(" must be an array")>>)
       ELSE ToolError(<<Lit("Each row for range "), Str(update.range),
                        Lit(" must be a non-empty array")>>)

\* BatchUpdateCellsTool.execute: validate input values
BatchUpdateCellsTool_validate(updates) ==
    IF ~updates.isArray \/ updates.items = <<>>
    THEN ToolError(<<Lit("Updates must be a non-empty array")>>)
    ELSE LET bad == {i \in 1..Len(updates.items) : ~validateUpdate(updates.items[i]).ok}
         IN IF bad = {} THEN [ok |-> TRUE]
            ELSE validateUpdate(updates.items[Min(bad)])

\* AddSheetTool.execute: validate sheet title
AddSheetTool_validate(sheetTitle) ==
    IF sheetTitle = <<>> \/ IsBlank(sheetTitle)
    THEN ToolError(<<Lit("Sheet title cannot be empty")>>)
    ELSE [ok |-> TRUE]

\* `${n}`
Num(n) == Str(DecimalString(n))

\* GetSheetsTool.formatSpreadsheetInfo
formatSpreadsheetInfo(info) ==
    LET n == Len(info.sheets)
        sheetText(i) ==
            <<Lit("Sheet "), Num(i), Lit(": "), Str(info.sheets[i].title),
              Lit("\n  - Rows: "), Num(info.sheets[i].rowCount),
              Lit("\n  - Columns: "), Num(info.sheets[i].columnCount),
              Lit("\n  - Sheet ID: "), Num(info.sheets[i].sheetId), Lit("\n")>>
            \o (IF i < n THEN <<Lit("\n")>> ELSE <<>>)
        text[i \in 0..n] ==
            IF i = 0
            THEN <<Lit("Spreadsheet: "), Str(info.title), Lit(" (ID: "),
                   Str(info.spreadsheetId), Lit(")\n\nTotal sheets: "), Num(n),
                   Lit("\n\n")>>
            ELSE text[i - 1] \o sheetText(i)
    IN text[n]

\* ` range ${range}` when a range is given, nothing otherwise
rangeText(range) ==
    IF range = None \/ range[1] = <<>> THEN <<>> ELSE <<Lit(" range "), Str(range[1])>>

\* the widest row of the matrix
colCount(values) ==
    IF values = <<>> THEN 0 ELSE Max({Len(values[i]) : i \in 1..Len(values)})

\* GetSheetValuesTool: the text for the values read; the header lines are
\* written out, the table of the cells that follows them is one part
getSheetValuesText(values, sheetName, range) ==
    IF Len(values) = 0
    THEN <<Lit("No data found in sheet \""), Str(sheetName), Lit("\"")>>
         \o rangeText(range) \o <<Lit(".")>>
    ELSE <<Lit("Data from sheet \""), Str(sheetName), Lit("\"")>>
         \o rangeText(range)
         \o <<Lit("\nRows: "), Num(Len(values)), Lit(", Columns: "),
               Num(colCount(values)), Lit("\n\n"), Lit("<table>")>>

\* UpdateCellsTool: the result message; the serialized values are one part
updateCellsText(outcome, sheetName, range) ==
    <<Lit("Successfully updated "), Num(outcome.updatedCells), Lit(" cells across "),
      Num(outcome.updatedRows), Lit(" rows in sheet \""), Str(sheetName),
      Lit("\" at range \""), Str(range), Lit("\".\n\nValues updated: "),
      Lit("<JSON>")>>

\* BatchUpdateCellsTool: the result message; each update is listed with its
\* sheet and range, its serialized values are one part
batchUpdateCellsText(outcome, updates) ==
    LET n == Len(updates)
        updateText(i) ==
            (IF i > 1 THEN <<Lit("\n")>> ELSE <<>>)
            \o <<Lit("- Sheet: \""), Str(updates[i].sheetName), Lit("\", Range: \""),
                  Str(updates[i].range), Lit("\", Values: "), Lit("<JSON>")>>
        text[i \in 0..n] ==
            IF i = 0
            THEN <<Lit("Successfully updated "), Num(outcome.totalUpdatedCells),
                   Lit(" cells across "), Num(outcome.totalUpdatedRows),
                   Lit(" rows.\n\nUpdates performed:\n")>>
            ELSE text[i - 1] \o updateText(i)
    IN text[n]

\* AddSheetTool: the result message
addSheetText(newSheet) ==
    <<Lit("Successfully added new sheet \""), Str(newSheet.title),
      Lit("\" to the spreadsheet.\n\nSheet details:\n- Sheet ID: "),
      Num(newSheet.sheetId), Lit("\n- Rows: "), Num(newSheet.rowCount),
      Lit("\n- Columns: "), Num(newSheet.columnCount)>>

\* the text a tool builds from what the client returned
successText(call, value) ==
    CASE call.name = "get_sheets" -> formatSpreadsheetInfo(value)
      [] call.name = "get_sheet_values" ->
            getSheetValuesText(value, call.sheetName, call.range)
      [] call.name = "update_cells" ->
            updateCellsText(value, call.sheetName, call.range[1])
      [] call.name = "batch_update_cells" ->
            batchUpdateCellsText(value, call.updates.items)
      [] call.name = "add_sheet" -> addSheetText(value)

\* the try block up to the await of the client: checked is the outcome of
\* extractSpreadsheetId and of the tool's validation, o the client operation
execute(call, checked, o) ==
    /\ pc = "idle"
    /\ tool = NoTool
    /\ tool' = call
    /\ IF checked.ok
       THEN /\ Start(o)
            /\ UNCHANGED toolResult
       ELSE /\ toolResult' = Some(catch(checked))
            /\ UNCHANGED <<clientVars, resolverVars, rangeVars>>
    /\ UNCHANGED concurrentVars

\* variant: the validation runs before extractSpreadsheetId
Checked_validationFirst(id, validated) == IF ~validated.ok THEN validated ELSE id

\* the outcome of extractSpreadsheetId, then of the validation if it passed
Checked(id, validated) == IF ~id.ok THEN id ELSE validated

\* the spreadsheetId handed to the client, once extractSpreadsheetId passed
IdOf(id) == IF id.ok THEN id.id ELSE <<>>

GetSheetsTool_execute(spreadsheetUrl) ==
    LET id == extractSpreadsheetId(spreadsheetUrl)
    IN execute([NoTool EXCEPT !.name = "get_sheets", !.spreadsheetUrl = spreadsheetUrl],
               Checked(id, [ok |-> TRUE]),
               [NoOp EXCEPT !.name = "getSpreadsheetInfo", !.spreadsheetId = IdOf(id)])

GetSheetValuesTool_execute(spreadsheetUrl, sheetName, range) ==
    LET id == extractSpreadsheetId(spreadsheetUrl)
    IN execute([NoTool EXCEPT !.name = "get_sheet_values",
                              !.spreadsheetUrl = spreadsheetUrl,
                              !.sheetName = sheetName, !.range = range],
               Checked(id, [ok |-> TRUE]),
               [NoOp EXCEPT !.name = "getSheetValues", !.spreadsheetId = IdOf(id),
                            !.sheetName = sheetName, !.range = range])

UpdateCellsTool_execute(spreadsheetUrl, sheetName, range, values) ==
    LET id == extractSpreadsheetId(spreadsheetUrl)
        validated == UpdateCellsTool_validate(values)
    IN execute([NoTool EXCEPT !.name = "update_cells",
                              !.spreadsheetUrl = spreadsheetUrl,
                              !.sheetName = sheetName, !.range = Some(range),
                              !.values = values],
               Checked(id, validated),
               [NoOp EXCEPT !.name = "updateCellValues", !.spreadsheetId = IdOf(id),
                            !.sheetName = sheetName, !.range = Some(range),
                            !.values = Rows(values)])

BatchUpdateCellsTool_execute(spreadsheetUrl, updates) ==
    LET id == extractSpreadsheetId(spreadsheetUrl)
        validated == BatchUpdateCellsTool_validate(updates)
    IN execute([NoTool EXCEPT !.name = "batch_update_cells",
                              !.spreadsheetUrl = spreadsheetUrl, !.updates = updates],
               Checked(id, validated),
               [NoOp EXCEPT !.name = "batchUpdateCellValues",
                            !.spreadsheetId = IdOf(id),
                            !.updates = [i \in 1..Len(updates.items) |->
                                            [sheetName |-> updates.items[i].sheetName,
                                             range |-> updates.items[i].range,
                                             values |-> Rows(updates.items[i].values)]]])

AddSheetTool_execute(spreadsheetUrl, sheetTitle, rowCount, columnCount) ==
    LET id == extractSpreadsheetId(spreadsheetUrl)
        validated == AddSheetTool_validate(sheetTitle)
    IN execute([NoTool EXCEPT !.name = "add_sheet", !.spreadsheetUrl = spreadsheetUrl,
                              !.sheetTitle = sheetTitle, !.rowCount = rowCount,
                              !.columnCount = columnCount],
               Checked(id, validated),
               [NoOp EXCEPT !.name = "addSheet", !.spreadsheetId = IdOf(id),
                            !.sheetTitle = sheetTitle,
                            !.options = Some([rowCount |-> rowCount,
                                              columnCount |-> columnCount])])

\* the promise of the client has settled: the tool returns its text, or the
\* catch block turns the error into a result
execute_settled ==
    /\ tool # NoTool
    /\ pc = "done"
    /\ toolResult = None
    /\ toolResult' = Some(IF result[1].ok
                          THEN Fulfilled(TextResult(successText(tool, result[1].value)))
                          ELSE catch(result[1]))
    /\ UNCHANGED <<tool, clientVars, resolverVars, rangeVars, concurrentVars>>

\* the server has sent the result of the tool
execute_returned ==
    /\ toolResult # None
    /\ tool' = NoTool
    /\ toolResult' = None
    /\ IF pc = "done" THEN Consume
       ELSE UNCHANGED <<clientVars, resolverVars, rangeVars>>
    /\ UNCHANGED concurrentVars

-----------------------------------------------------------------------------
(* Specification of the tools *)

InvalidUrl == <<"n","o"," ","i","d">>

\* a bare ID, a sharing URL and a text that is neither
ToolUrls == {SpreadsheetId,
             UrlPrefix \o SpreadsheetId \o <<"/","e","d","i","t">>,
             InvalidUrl}

OneCell == <<StringCell(<<"x">>)>>

\* values arguments: not an array, empty, a row that is not an array, an empty
\* row, one row of one cell, and a row of one cell followed by an empty row
ToolValues ==
    {NotArray, Arr(<<>>), Arr(<<NotArray>>), Arr(<<Arr(<<>>)>>),
     Arr(<<Arr(OneCell)>>), Arr(<<Arr(OneCell), Arr(<<>>)>>)}

\* updates of a batch: values that are empty, have a row that is not an
\* array, have an empty row, or are one row of one cell
ToolUpdates ==
    [sheetName : {Sheet1}, range : {<<"A","1">>, <<"B","2">>},
     values : {Arr(<<>>), Arr(<<NotArray>>), Arr(<<Arr(<<>>)>>), Arr(<<Arr(OneCell)>>)}]

ToolBatchArgs ==
    {NotArray} \cup {Arr(u) : u \in UNION {[1..k -> ToolUpdates] : k \in 0..MaxUpdates}}

ToolSheetTitles == {<<>>, <<" ">>, Sheet1, <<"Q">>}

InitTools ==
    /\ url = <<>>
    /\ resolved = NotRun
    /\ rangeArg = <<>>
    /\ rangeChecked = NotRun
    /\ remote \in {Remote1, Remote3}
    /\ MAX_RESPONSE_SIZE = configuredMaxResponseSize(Some(<<"2","5">>))
    /\ created = {}
    /\ ClientIdle
    /\ ToolIdle
    /\ NoFlights

NextTools ==
    \/ \E spreadsheetUrl \in ToolUrls : GetSheetsTool_execute(spreadsheetUrl)
    \/ \E spreadsheetUrl \in ToolUrls, sheetName \in SheetTitles, range \in SheetRanges :
          GetSheetValuesTool_execute(spreadsheetUrl, sheetName, range)
    \/ \E spreadsheetUrl \in ToolUrls, sheetName \in SheetTitles, values \in ToolValues :
          UpdateCellsTool_execute(spreadsheetUrl, sheetName, <<"A","1">>, values)
    \/ \E spreadsheetUrl \in {SpreadsheetId, InvalidUrl}, updates \in ToolBatchArgs :
          BatchUpdateCellsTool_execute(spreadsheetUrl, updates)
    \/ \E spreadsheetUrl \in ToolUrls, sheetTitle \in ToolSheetTitles,
          rowCount \in {None, Some(5)} :
          AddSheetTool_execute(spreadsheetUrl, sheetTitle, rowCount, None)
    \/ getSpreadsheetInfo_replied
    \/ getSheetValues_prepared
    \/ getSheetValues_replied
    \/ updateCellValues_prepared
    \/ updateCellValues_replied
    \/ batchUpdateCellValues_prepared
    \/ batchUpdateCellValues_replied
    \/ addSheet_prepared
    \/ addSheet_replied
    \/ RemoteCallFails
    \/ execute_settled
    \/ execute_returned

SpecTools == InitTools /\ [][NextTools]_vars

-----------------------------------------------------------------------------
(* Properties of the client (checked under Spec) *)

\* the positions in calls of the requests to one remote method
CallsOf(api) == {i \in 1..Len(calls) : calls[i].api = api}

WriteApis == {"values.update", "values.batchUpdate", "spreadsheets.batchUpdate"}

\* the sheet titles of the snapshot fetched by the operation in flight
SnapshotTitles ==
    IF spreadsheetInfo = None THEN {}
    ELSE {spreadsheetInfo[1].sheets[i].title : i \in 1..Len(spreadsheetInfo[1].sheets)}

Failed == pc = "done" /\ result # None /\ ~result[1].ok

\* C3: getSheetValues with a sheetName that equals no title of the snapshot it
\* fetched fails with 'Sheet "<sheetName>" does not exist in this spreadsheet'
\* and no values-get is issued during the call
C3_MissingSheetFailsBeforeRead ==
    (/\ op.name = "getSheetValues"
     /\ spreadsheetInfo # None
     /\ op.sheetName \notin SnapshotTitles)
    => /\ Failed
       /\ result[1].message =
             <<Lit("Sheet \""), Str(op.sheetName),
               Lit("\" does not exist in this spreadsheet")>>
       /\ CallsOf("values.get") = {}

\* a read of "s1" from a spreadsheet whose sheets are "S1" and "S2" has failed
C3_Witness ==
    /\ op.name = "getSheetValues"
    /\ op.sheetName = <<"s","1">>
    /\ SnapshotTitles = {Sheet1, Sheet2}
    /\ Failed
    /\ CallsOf("values.get") = {}

\* the range of C4 as stated: the sheet name for an absent range, the range
\* itself when it contains '!', the sheet name, '!' and the range otherwise
StatedRange(sheetName, range) ==
    IF range = None THEN sheetName
    ELSE IF Includes(range[1], "!") THEN range[1]
    ELSE sheetName \o <<"!">> \o range[1]

\* the same, with an empty range treated like an absent one
NormalizedRange(sheetName, range) ==
    IF range = None \/ range[1] = <<>> THEN sheetName
    ELSE StatedRange(sheetName, range)

\* C4 as stated: the range sent by getSheetValues and updateCellValues is the
\* bare sheetName when range is absent, the range unchanged when it contains
\* '!', and sheetName + '!' + range otherwise
C4_RangeNormalization ==
    \A i \in 1..Len(calls) :
        calls[i].api \in {"values.get", "values.update"} =>
            calls[i].range = StatedRange(op.sheetName, op.range)

\* C4 amended: the range sent is the bare sheetName when range is absent or
\* the empty string, the range unchanged when it contains '!', and
\* sheetName + '!' + range otherwise
C4_RangeNormalizationEmptyAsAbsent ==
    \A i \in 1..Len(calls) :
        calls[i].api \in {"values.get", "values.update"} =>
            calls[i].range = NormalizedRange(op.sheetName, op.range)

\* ("S1", "S2!A1") has been sent as "S2!A1"
C4_Witness ==
    /\ op.sheetName = Sheet1
    /\ op.range = Some(<<"S","2","!","A","1">>)
    /\ \E i \in CallsOf("values.get") : calls[i].range = <<"S","2","!","A","1">>

\* a bare title without '!', or a title, a '!' and a sub-range that as a whole
\* (everything behind the first '!') is a cell or a rectangle
IsRangeSpecifier(r) ==
    \/ ~Includes(r, "!")
    \/ \E p \in 1..Len(r) :
          /\ r[p] = "!"
          /\ \A q \in 1..(p - 1) : r[q] # "!"
          /\ IsA1SubRange(SubSeq(r, p + 1, Len(r)))

\* C6: every range carried by an issued values-get, values-update or
\* values-batch-update is a RangeSpecifier; any other qualified range is
\* rejected before the remote values call
C6_RangeSpecifierInvariant ==
    \A i \in 1..Len(calls) :
        /\ calls[i].api \in {"values.get", "values.update"} =>
              IsRangeSpecifier(calls[i].range)
        /\ calls[i].api = "values.batchUpdate" =>
              \A k \in 1..Len(calls[i].data) : IsRangeSpecifier(calls[i].data[k].range)

\* values.get has replied to getSheetValues
ValuesGetReplied ==
    /\ op.name = "getSheetValues"
    /\ pc = "done"
    /\ CallsOf("values.get") # {}
    /\ reply # None
    /\ reply[1].ok

\* the matrix of the reply, an absent one as the empty matrix
RepliedMatrix == IF reply[1].data = None THEN <<>> ELSE reply[1].data[1]

IsResponseTooLarge(r) == ~r.ok /\ r.kind = "ResponseTooLarge"

\* C7: once values.get has replied, getSheetValues returns exactly the remote
\* matrix (absent or empty as the empty matrix) iff its JSON length is not
\* greater than the ceiling, and fails with ResponseTooLarge iff it is greater
C7_ReadResult ==
    ValuesGetReplied =>
        /\ result[1] = [ok |-> TRUE, value |-> RepliedMatrix]
              <=> JsonLen(RepliedMatrix) <= MAX_RESPONSE_SIZE
        /\ IsResponseTooLarge(result[1])
              <=> JsonLen(RepliedMatrix) > MAX_RESPONSE_SIZE

\* a matrix of exactly the ceiling's length (25 characters) has been returned
C7_Witness ==
    /\ ValuesGetReplied
    /\ MAX_RESPONSE_SIZE = 25
    /\ reply[1].data = Some(Matrix2x2)
    /\ result[1] = [ok |-> TRUE, value |-> Matrix2x2]

\* the message has the number n interpolated
Cites(message, n) ==
    \E i \in 1..Len(message) : message[i].str = DecimalString(n)

\* C8 as stated: the ResponseTooLarge message names both the measured size and
\* the configured ceiling
C8_CitesSizeAndCeiling ==
    (ValuesGetReplied /\ IsResponseTooLarge(result[1])) =>
        /\ Cites(result[1].message, JsonLen(RepliedMatrix))
        /\ Cites(result[1].message, MAX_RESPONSE_SIZE)

\* C8 amended: the ResponseTooLarge message names the measured size only,
\* 'Response size (<size> characters) exceeds the maximum allowed size. Please
\* specify a smaller range.'; the ceiling is not cited
C8_CitesSizeOnly ==
    (ValuesGetReplied /\ IsResponseTooLarge(result[1])) =>
        /\ result[1].message =
              <<Lit("Response size ("), Str(DecimalString(JsonLen(RepliedMatrix))),
                Lit(" characters) exceeds the maximum allowed size. Please specify a smaller range.")>>
        /\ Cites(result[1].message, JsonLen(RepliedMatrix))
        /\ ~Cites(result[1].message, MAX_RESPONSE_SIZE)

\* with a ceiling of 100 a matrix of 150 characters has been refused, and the
\* message cites 150
C8_Witness ==
    /\ ValuesGetReplied
    /\ MAX_RESPONSE_SIZE = 100
    /\ JsonLen(RepliedMatrix) = 150
    /\ IsResponseTooLarge(result[1])
    /\ Cites(result[1].message, 150)

\* the count the remote reported, 0 when the reply has none
Reported(count) == IF count = None THEN 0 ELSE count[1]

\* C9: when the sheet exists and the range validates, updateCellValues issues
\* exactly one values-update, for the normalized range, with the caller's
\* values and USER_ENTERED, and returns updatedRows and updatedCells as the
\* remote reports them, an absent count as 0
C9_WriteIssuesOneUpdate ==
    (/\ op.name = "updateCellValues"
     /\ spreadsheetInfo # None
     /\ op.sheetName \in SnapshotTitles
     /\ validateA1Notation(NormalizedRange(op.sheetName, op.range)).ok)
    => /\ calls = <<MetadataGet(op.spreadsheetId),
                    [api |-> "values.update", spreadsheetId |-> op.spreadsheetId,
                     range |-> NormalizedRange(op.sheetName, op.range),
                     valueInputOption |-> "USER_ENTERED", values |-> op.values]>>
       /\ (pc = "done" /\ reply[1].ok) =>
             result[1] = [ok |-> TRUE,
                          value |-> [updatedRows |-> Reported(reply[1].data.updatedRows),
                                     updatedCells |-> Reported(reply[1].data.updatedCells)]]

\* a write has returned the reported cell count and 0 for the absent row count
C9_Witness ==
    /\ op.name = "updateCellValues"
    /\ pc = "done"
    /\ reply # None
    /\ reply[1].ok
    /\ Len(calls) = 2
    /\ reply[1].data = [updatedRows |-> None, updatedCells |-> Some(2)]
    /\ result[1] = [ok |-> TRUE, value |-> [updatedRows |-> 0, updatedCells |-> 2]]

\* update i of the batch names a sheet of the snapshot and its qualified range
\* passes the validation
UpdateIsValid(i) ==
    /\ op.updates[i].sheetName \in SnapshotTitles
    /\ validateA1Notation(
          NormalizedRange(op.updates[i].sheetName, Some(op.updates[i].range))).ok

\* C10: the values-batch-update is issued only if every update names an
\* existing sheet and has a valid range; if one update does not, the call fails
\* and no remote write of any kind is issued
C10_BatchNoPartialApplication ==
    op.name = "batchUpdateCellValues" =>
        /\ CallsOf("values.batchUpdate") # {} =>
              \A i \in 1..Len(op.updates) : UpdateIsValid(i)
        /\ (spreadsheetInfo # None /\ \E i \in 1..Len(op.updates) : ~UpdateIsValid(i)) =>
              /\ Failed
              /\ \A k \in 1..Len(calls) : calls[k].api \notin WriteApis

\* a batch of a valid update and an update of a missing sheet has failed
\* without a remote write
C10_Witness ==
    /\ op.name = "batchUpdateCellValues"
    /\ spreadsheetInfo # None
    /\ Len(op.updates) = 2
    /\ \E i, j \in 1..2 : UpdateIsValid(i) /\ op.updates[j].sheetName \notin SnapshotTitles
    /\ Failed
    /\ \A k \in 1..Len(calls) : calls[k].api \notin WriteApis

\* C11: batchUpdateCellValues with N >= 1 updates, whatever sheet names they
\* repeat, issues exactly one metadata get and at most one values-batch-update;
\* that request has the option USER_ENTERED and exactly N entries in input
\* order, the i-th with the normalized range and the values of the i-th update
C11_BatchAmortizesRemoteCalls ==
    (op.name = "batchUpdateCellValues" /\ Len(op.updates) >= 1)
    => /\ Cardinality(CallsOf("spreadsheets.get")) = 1
       /\ calls[1] = MetadataGet(op.spreadsheetId)
       /\ Cardinality(CallsOf("values.batchUpdate")) <= 1
       /\ \A k \in CallsOf("values.batchUpdate") :
             /\ calls[k].valueInputOption = "USER_ENTERED"
             /\ Len(calls[k].data) = Len(op.updates)
             /\ \A i \in 1..Len(op.updates) :
                   calls[k].data[i] =
                      [range  |-> NormalizedRange(op.updates[i].sheetName,
                                                  Some(op.updates[i].range)),
                       values |-> op.updates[i].values]

\* a batch of two updates of the same sheet has been sent as one request of
\* two entries
C11_Witness ==
    /\ op.name = "batchUpdateCellValues"
    /\ Len(op.updates) = 2
    /\ op.updates[1].sheetName = op.updates[2].sheetName
    /\ op.updates[1].range # op.updates[2].range
    /\ pc = "done"
    /\ result[1].ok
    /\ Cardinality(CallsOf("spreadsheets.get")) = 1
    /\ \E k \in CallsOf("values.batchUpdate") : Len(calls[k].data) = 2

-----------------------------------------------------------------------------
(* Properties of addSheet, getSpreadsheetInfo and sequences of operations   *)
(* (checked under SpecSheets)                                               *)

\* C12: addSheet with a sheetTitle equal to the title of a sheet of the
\* snapshot it fetched fails with 'Sheet with title "<title>" already exists
\* in this spreadsheet' and issues no spreadsheets.batchUpdate
C12_ExistingTitleFails ==
    (/\ op.name = "addSheet"
     /\ spreadsheetInfo # None
     /\ op.sheetTitle \in SnapshotTitles)
    => /\ Failed
       /\ result[1].message =
             <<Lit("Sheet with title \""), Str(op.sheetTitle),
               Lit("\" already exists in this spreadsheet")>>
       /\ CallsOf("spreadsheets.batchUpdate") = {}

\* addSheet of "S1" on a spreadsheet that has a sheet "S1" has failed without
\* a mutation
C12_Witness ==
    /\ op.name = "addSheet"
    /\ op.sheetTitle = Sheet1
    /\ Sheet1 \in SnapshotTitles
    /\ Failed
    /\ result[1].kind = "SheetAlreadyExists"
    /\ CallsOf("spreadsheets.batchUpdate") = {}

\* the grid dimensions carried by the add-sheet mutation at position k
RequestedGrid(k) == calls[k].requests[1].addSheet.properties.gridProperties

RepliedProperties ==
    LET data == reply[1].data
    IN IF data.replies = None \/ data.replies[1] = <<>> THEN None
       ELSE IF data.replies[1][1].addSheet = None THEN None
       ELSE data.replies[1][1].addSheet[1].properties

\* the mutation of the addSheet in flight has been replied to
MutationReplied ==
    /\ op.name = "addSheet"
    /\ pc = "done"
    /\ CallsOf("spreadsheets.batchUpdate") # {}
    /\ reply # None
    /\ reply[1].ok

\* a field of the reply that is present and neither the empty text nor 0
HasValue(field, falsy) == field # None /\ field[1] # falsy

\* C14: a successful addSheet has issued exactly one metadata get, before the
\* mutation, and no call after the reply of the mutation; every field the
\* descriptor returned has a value for in that reply is the reply's
C14_DescriptorFromMutationReply ==
    (op.name = "addSheet" /\ pc = "done" /\ result[1].ok)
    => /\ Len(calls) = 2
       /\ calls[1] = MetadataGet(op.spreadsheetId)
       /\ calls[2].api = "spreadsheets.batchUpdate"
       /\ MutationReplied
       /\ RepliedProperties # None
       /\ LET p == RepliedProperties[1]
              v == result[1].value
          IN /\ HasValue(p.title, <<>>) => v.title = p.title[1]
             /\ p.sheetId # None => v.sheetId = p.sheetId[1]
             /\ (p.gridProperties # None /\ HasValue(p.gridProperties[1].rowCount, 0))
                   => v.rowCount = p.gridProperties[1].rowCount[1]
             /\ (p.gridProperties # None
                 /\ HasValue(p.gridProperties[1].columnCount, 0))
                   => v.columnCount = p.gridProperties[1].columnCount[1]

\* addSheet of "Q" has returned the sheetId that only the reply of the
\* mutation holds
C14_Witness ==
    /\ op.name = "addSheet"
    /\ op.sheetTitle = <<"Q">>
    /\ pc = "done"
    /\ result[1].ok
    /\ Len(calls) = 2
    /\ RepliedProperties[1].sheetId = Some(102)
    /\ result[1].value.sheetId = 102

\* C15: addSheet fails with 'Failed to retrieve created sheet properties'
\* whenever the mutation succeeded and its response has no properties of the
\* new sheet: no replies field, an empty replies list, a first reply without
\* addSheet, or an addSheet without properties
C15_MissingPropertiesFail ==
    (MutationReplied /\ RepliedProperties = None)
    => /\ Failed
       /\ result[1].message = <<Lit("Failed to retrieve created sheet properties")>>

\* C16: getSpreadsheetInfo issues one spreadsheets.get projected to
\* 'spreadsheetId,properties.title,sheets.properties' and returns the id it
\* was called with, the remote title or 'Untitled Spreadsheet' when the title
\* is missing (absent or empty), and one descriptor per remote sheet in remote
\* order whose missing sheetId, rowCount or columnCount are 0; a missing sheets
\* list yields the empty sequence
C16_FetchSnapshot ==
    (op.name = "getSpreadsheetInfo" /\ pc # "idle")
    => /\ calls = <<[api |-> "spreadsheets.get", spreadsheetId |-> op.spreadsheetId,
                     fields |-> "spreadsheetId,properties.title,sheets.properties"]>>
       /\ (pc = "done" /\ reply[1].ok) =>
             LET data == reply[1].data
                 v == result[1].value
                 remoteSheets == IF data.sheets = None THEN <<>> ELSE data.sheets[1]
             IN /\ result[1].ok
                /\ v.spreadsheetId = op.spreadsheetId
                /\ v.title = IF data.title = None \/ data.title[1] = <<>>
                             THEN UntitledSpreadsheet ELSE data.title[1]
                /\ Len(v.sheets) = Len(remoteSheets)
                /\ \A i \in 1..Len(remoteSheets) :
                      /\ remoteSheets[i].title \notin {None, Some(<<>>)} =>
                            v.sheets[i].title = remoteSheets[i].title[1]
                      /\ v.sheets[i].sheetId = Reported(remoteSheets[i].sheetId)
                      /\ v.sheets[i].rowCount = Reported(remoteSheets[i].rowCount)
                      /\ v.sheets[i].columnCount = Reported(remoteSheets[i].columnCount)

\* the snapshot of a spreadsheet without a title whose first sheet has no
\* sheetId and no grid counts has been returned
C16_Witness ==
    /\ op.name = "getSpreadsheetInfo"
    /\ op.spreadsheetId = OtherId
    /\ pc = "done"
    /\ reply[1].ok
    /\ reply[1].data = Remote3
    /\ result[1].value.spreadsheetId = OtherId
    /\ result[1].value.title = UntitledSpreadsheet
    /\ result[1].value.sheets[1] =
          [title |-> Sheet2, sheetId |-> 0, rowCount |-> 0, columnCount |-> 0]

\* the last remote call of the operation in flight was rejected
RemoteCallRejected == reply # None /\ ~reply[1].ok

\* C17: when a remote call of an operation fails, the operation has settled
\* with the very error of that call, without another remote call: no call has
\* been issued twice and the rejected call is the last one issued
C17_NoRetryFailStop ==
    RemoteCallRejected
    => /\ pc = "done"
       /\ result = reply
       /\ \A i, j \in 1..Len(calls) : calls[i].api = calls[j].api => i = j
       /\ Len(calls) <= 2

\* the mutation of an addSheet has been rejected and addSheet has rejected
\* with the same error
C17_Witness ==
    /\ op.name = "addSheet"
    /\ RemoteCallRejected
    /\ Len(calls) = 2
    /\ calls[2].api = "spreadsheets.batchUpdate"
    /\ pc = "done"
    /\ result = reply

\* the operation in flight has failed because the sheet is not in its snapshot
FailedAsSheetNotFound(sheetName) ==
    /\ Failed
    /\ result[1] = SheetNotFound(sheetName)

\* the titles under which the sheets of the remote spreadsheet are known
RemoteTitles ==
    IF remote.sheets = None THEN {}
    ELSE {IF remote.sheets[1][i].title \in {None, Some(<<>>)} THEN UntitledSheet
          ELSE remote.sheets[1][i].title[1] : i \in 1..Len(remote.sheets[1])}

\* C18: every operation starts with its own metadata get and keeps no
\* snapshot once it has settled; while it awaits a values or mutation call
\* its snapshot is the one the remote has now; so a read or write on a sheet
\* an earlier addSheet returned is not refused as missing, and an addSheet of
\* that title fails as already existing without a mutation
C18_NoInterCallCaching ==
    /\ pc # "idle" => (calls # <<>> /\ calls[1] = MetadataGet(op.spreadsheetId))
    /\ pc = "idle" => spreadsheetInfo = None
    /\ (pc \in Pending /\ pc # "spreadsheets.get") =>
          /\ spreadsheetInfo # None
          /\ SnapshotTitles = RemoteTitles
    /\ \A T \in created :
          /\ ~FailedAsSheetNotFound(T)
          /\ (op.name = "addSheet" /\ op.sheetTitle = T /\ spreadsheetInfo # None) =>
                /\ Failed
                /\ result[1].kind = "SheetAlreadyExists"
                /\ CallsOf("spreadsheets.batchUpdate") = {}

\* after addSheet has returned "Q", a read of "Q" has reached values.get
C18_Witness ==
    /\ <<"Q">> \in created
    /\ op.name = "getSheetValues"
    /\ op.sheetName = <<"Q">>
    /\ CallsOf("values.get") # {}

-----------------------------------------------------------------------------
(* Properties of the tools (checked under SpecTools) *)

\* the one text of the result the tool in flight has returned
ToolText == toolResult[1].value.content[1].text

\* the result is 'Error: ' and the message, with isError true
IsErrorResult(message) ==
    /\ toolResult[1].value.isError = Some(TRUE)
    /\ ToolText = <<Lit("Error: ")>> \o message

MalformedValues(values) ==
    \/ ~values.isArray
    \/ values.items = <<>>
    \/ \E i \in 1..Len(values.items) :
          ~values.items[i].isArray \/ values.items[i].items = <<>>

\* the updates of the batch_update_cells in flight whose values are malformed
MalformedUpdates ==
    IF tool.name = "batch_update_cells" /\ tool.updates.isArray
    THEN {i \in 1..Len(tool.updates.items) :
             MalformedValues(tool.updates.items[i].values)}
    ELSE {}

\* a write tool is in flight with a spreadsheet ID and malformed values
WriteToolWithMalformedValues ==
    /\ tool.spreadsheetUrl # InvalidUrl
    /\ \/ tool.name = "update_cells" /\ MalformedValues(tool.values)
       \/ MalformedUpdates # {}

\* the range the malformed values were given for
OffendingRange ==
    IF tool.name = "update_cells" THEN tool.range[1]
    ELSE tool.updates.items[Min(MalformedUpdates)].range

\* the tool in flight has returned an error without a call of the client
RejectedByTool ==
    /\ pc = "idle"
    /\ calls = <<>>
    /\ toolResult # None
    /\ toolResult[1].settled = "fulfilled"
    /\ toolResult[1].value.isError = Some(TRUE)

\* C20 as stated: update_cells and batch_update_cells reject malformed values
\* before the client is called, with an error message that identifies the
\* offending range
C20_ShapeValidationNamesRange ==
    WriteToolWithMalformedValues
    => /\ RejectedByTool
       /\ \E k \in 1..Len(ToolText) : ToolText[k] = Str(OffendingRange)

\* the three messages of batch_update_cells for the range r
BatchMessages(r) ==
    {<<Lit("Values for range "), Str(r), Lit(" must be a non-empty 2D array")>>,
     <<Lit("Each row for range "), Str(r), Lit(" must be an array")>>,
     <<Lit("Each row for range "), Str(r), Lit(" must be a non-empty array")>>}

\* C20 amended: both tools reject malformed values before the client is
\* called; the message of batch_update_cells identifies the offending range,
\* the message of update_cells is 'Values must be a non-empty 2D array' or
\* 'Each row in values must be a non-empty array' and names no range
C20_ShapeValidationBeforeClient ==
    WriteToolWithMalformedValues
    => /\ RejectedByTool
       /\ tool.name = "batch_update_cells" =>
             \E m \in BatchMessages(OffendingRange) : IsErrorResult(m)
       /\ tool.name = "update_cells" =>
             /\ IF ~tool.values.isArray \/ tool.values.items = <<>>
                THEN IsErrorResult(<<Lit("Values must be a non-empty 2D array")>>)
                ELSE IsErrorResult(<<Lit("Each row in values must be a non-empty array")>>)
             /\ \A k \in 1..Len(ToolText) : ToolText[k] # Str(OffendingRange)

\* a batch whose second update, for range B2, has an empty row has been
\* rejected with the message for B2
C20_Witness ==
    /\ RejectedByTool
    /\ tool.name = "batch_update_cells"
    /\ tool.spreadsheetUrl = SpreadsheetId
    /\ MalformedUpdates = {2}
    /\ tool.updates.items[1].range = <<"A","1">>
    /\ IsErrorResult(<<Lit("Each row for range "), Str(<<"B","2">>),
                       Lit(" must be a non-empty array")>>)

-----------------------------------------------------------------------------
(* The pattern list of the identifier resolver: what each pattern adds and  *)
(* what their order decides (checked under SpecResolver)                     *)

\* the loop over the list without its second pattern
extractSpreadsheetId_withoutUnbounded(s) ==
    FirstMatch(<<MatchBounded(s), MatchBare(s)>>)

\* the loop over the list with the bare-token pattern moved to the front
extractSpreadsheetId_bareFirst(s) ==
    FirstMatch(<<MatchBare(s), MatchBounded(s), MatchUnbounded(s)>>)

\* C21 as stated: for every input the resolver returns what the resolver
\* without the second URL pattern returns
C21_UnboundedSubsumed ==
    resolved # NotRun =>
        resolved[1] = extractSpreadsheetId_withoutUnbounded(url)

\* C21 amended: the two resolvers agree on every input in which the prefix and
\* an ID are followed by the end, '/' or '?', and on every input in which the
\* prefix is nowhere followed by an ID character; on the other inputs (the ID
\* is followed by another character, such as '#') only the second pattern
\* matches: the resolver returns an ID and the resolver without it fails
C21_UnboundedAddsUnterminatedUrls ==
    resolved # NotRun =>
        IF BoundedUrlOccurs(url) \/ ~UrlOccurs(url)
        THEN resolved[1] = extractSpreadsheetId_withoutUnbounded(url)
        ELSE /\ resolved[1].ok
             /\ IsBareId(resolved[1].id)
             /\ RejectedAsInvalidIdentifier(
                    extractSpreadsheetId_withoutUnbounded(url))

\* a URL whose ID is followed by '#' has been resolved by the second pattern
C21_Witness ==
    /\ resolved # NotRun
    /\ url = UrlPrefix \o <<"a", "Z", "#">>
    /\ resolved[1] = Resolved(<<"a", "Z">>)
    /\ ~extractSpreadsheetId_withoutUnbounded(url).ok

\* C22 as stated: some input, once resolved, gets another result from the list
\* with the bare-token pattern in front
C22_OrderMatters ==
    resolved # NotRun =>
        \E s \in UrlInputs :
            extractSpreadsheetId_bareFirst(s) # extractSpreadsheetId(s)

\* C22 amended: the place of the bare-token pattern in the list does not
\* matter: it matches no input that holds a ':' or a '/', so no input holding
\* the URL prefix, and with it moved to the front every input resolves to the
\* same result
C22_BareOrderIrrelevant ==
    resolved # NotRun =>
        /\ resolved[1] = extractSpreadsheetId_bareFirst(url)
        /\ UrlOccurs(url) => MatchBare(url) = <<>>

\* a full sharing URL has been resolved, and the bare-token pattern does not
\* match it
C22_Witness ==
    /\ resolved # NotRun
    /\ SharingUrlIds(url) # {}
    /\ resolved[1].ok
    /\ MatchBare(url) = <<>>
    /\ extractSpreadsheetId_bareFirst(url) = resolved[1]

\* C29: a returned ID is a non-empty text over letters, digits, '-' and '_',
\* and the resolver applied to it returns it again
C29_IdempotentOnOutputs ==
    (resolved # NotRun /\ resolved[1].ok) =>
        /\ IsBareId(resolved[1].id)
        /\ extractSpreadsheetId(resolved[1].id) = Resolved(resolved[1].id)

\* an ID taken out of a longer input has been returned
C29_Witness ==
    /\ resolved # NotRun
    /\ resolved[1].ok
    /\ resolved[1].id # url
    /\ Len(resolved[1].id) >= 2
    /\ extractSpreadsheetId(resolved[1].id) = resolved[1]

-----------------------------------------------------------------------------
(* Order of the checks inside the client's operations (checked under Spec)  *)

\* the updates of the batch in flight whose sheet is not in the snapshot
MissingSheetUpdates ==
    {i \in 1..Len(op.updates) : op.updates[i].sheetName \notin SnapshotTitles}

\* the updates of the batch in flight whose qualified range fails the check
InvalidRangeUpdates ==
    {i \in 1..Len(op.updates) :
        ~validateA1Notation(
            NormalizedRange(op.updates[i].sheetName, Some(op.updates[i].range))).ok}

\* the text between the first '!' of a qualified range and the next one
SubRangeOf(fullRange) == Split(fullRange, "!")[2]

FailedAsInvalidRange(subRange) ==
    /\ Failed
    /\ result[1].kind = "InvalidRange"
    /\ result[1].message = <<Lit("Invalid A1 notation range: "), Str(subRange)>>

\* C23: in batchUpdateCellValues every sheet is checked before any range: a
\* batch with a missing sheet fails with SheetNotFound naming the first missing
\* sheet in order of appearance, whatever ranges it holds and wherever; with
\* all sheets existing, a batch with an invalid range fails with InvalidRange
\* naming the sub-range of the first offending update
C23_BatchSheetsBeforeRanges ==
    (op.name = "batchUpdateCellValues" /\ spreadsheetInfo # None) =>
        /\ MissingSheetUpdates # {} =>
              /\ FailedAsSheetNotFound(op.updates[Min(MissingSheetUpdates)].sheetName)
              /\ result[1].kind = "SheetNotFound"
        /\ (MissingSheetUpdates = {} /\ InvalidRangeUpdates # {}) =>
              LET i == Min(InvalidRangeUpdates)
              IN FailedAsInvalidRange(
                    SubRangeOf(NormalizedRange(op.updates[i].sheetName,
                                               Some(op.updates[i].range))))
        /\ (Failed /\ result[1].kind = "InvalidRange") => MissingSheetUpdates = {}

\* a batch whose first update has an invalid range on an existing sheet and
\* whose second update names a missing sheet has failed with SheetNotFound
C23_Witness ==
    /\ op.name = "batchUpdateCellValues"
    /\ spreadsheetInfo # None
    /\ Len(op.updates) = 2
    /\ InvalidRangeUpdates = {1}
    /\ MissingSheetUpdates = {2}
    /\ FailedAsSheetNotFound(op.updates[2].sheetName)

\* the qualified range of the read or write in flight fails the check
RangeIsInvalid == ~validateA1Notation(NormalizedRange(op.sheetName, op.range)).ok

\* C24: getSheetValues and updateCellValues run the metadata fetch, the sheet
\* check, the range check and the remote values call in this order: a failed
\* fetch fails the call with the fetch's error, a missing sheet fails it with
\* SheetNotFound even if the range is invalid too, and InvalidRange is raised
\* only after a successful fetch, for an existing sheet, with no values call
C24_ErrorPrecedence ==
    op.name \in {"getSheetValues", "updateCellValues"} =>
        /\ calls[1] = MetadataGet(op.spreadsheetId)
        /\ Len(calls) <= 2
        /\ (Len(calls) = 2) =>
              /\ calls[2].api \in {"values.get", "values.update"}
              /\ spreadsheetInfo # None
              /\ op.sheetName \in SnapshotTitles
              /\ ~RangeIsInvalid
        /\ (pc # "spreadsheets.get" /\ spreadsheetInfo = None) =>
              /\ Failed
              /\ result[1] \in RemoteErrors
              /\ Len(calls) = 1
        /\ (spreadsheetInfo # None /\ op.sheetName \notin SnapshotTitles) =>
              /\ FailedAsSheetNotFound(op.sheetName)
              /\ Len(calls) = 1
        /\ (Failed /\ result[1].kind = "InvalidRange") =>
              /\ spreadsheetInfo # None
              /\ op.sheetName \in SnapshotTitles
              /\ Len(calls) = 1

\* a write to a missing sheet with an invalid range has failed with
\* SheetNotFound
C24_Witness ==
    /\ op.name = "updateCellValues"
    /\ spreadsheetInfo # None
    /\ op.sheetName \notin SnapshotTitles
    /\ RangeIsInvalid
    /\ FailedAsSheetNotFound(op.sheetName)
    /\ Len(calls) = 1

\* the sheet a qualified range addresses: the text in front of its first '!',
\* or the whole range when it has none
AddressedSheet(fullRange) == Split(fullRange, "!")[1]

\* C27: every values-get, values-update and entry of a values-batch-update
\* issued addresses the sheet whose existence the operation has checked: the
\* sheetName argument of the call, or of the entry's update
C27_DataCallTargetsCheckedSheet ==
    \A k \in 1..Len(calls) :
        /\ calls[k].api \in {"values.get", "values.update"} =>
              AddressedSheet(calls[k].range) = op.sheetName
        /\ calls[k].api = "values.batchUpdate" =>
              \A i \in 1..Len(calls[k].data) :
                  AddressedSheet(calls[k].data[i].range) = op.updates[i].sheetName

-----------------------------------------------------------------------------
(* The descriptor of addSheet and the remote calls of the operations        *)
(* (checked under SpecSheets)                                                *)

\* C26: each field of the descriptor a successful addSheet returns is the
\* field of the properties in the mutation reply when that is present and
\* neither 0 nor empty; otherwise the title is the requested title, the
\* sheetId is 0, and rowCount and columnCount are those sent in the request
C26_DescriptorFallbacks ==
    (op.name = "addSheet" /\ pc = "done" /\ result[1].ok) =>
        /\ RepliedProperties # None
        /\ LET p == RepliedProperties[1]
               g == p.gridProperties
               v == result[1].value
               sent == RequestedGrid(2)
           IN /\ v.title = IF HasValue(p.title, <<>>) THEN p.title[1]
                           ELSE op.sheetTitle
              /\ v.sheetId = IF HasValue(p.sheetId, 0) THEN p.sheetId[1] ELSE 0
              /\ v.rowCount = IF g # None /\ HasValue(g[1].rowCount, 0)
                              THEN g[1].rowCount[1] ELSE sent.rowCount
              /\ v.columnCount = IF g # None /\ HasValue(g[1].columnCount, 0)
                                 THEN g[1].columnCount[1] ELSE sent.columnCount

\* a reply with an empty title and a grid of 0 rows and 0 columns has given a
\* descriptor with the requested title and the dimensions sent
C26_Witness ==
    /\ op.name = "addSheet"
    /\ pc = "done"
    /\ result[1].ok
    /\ op.options = Some([rowCount |-> Some(5), columnCount |-> None])
    /\ RepliedProperties[1].title = Some(<<>>)
    /\ RepliedProperties[1].gridProperties =
          Some([rowCount |-> Some(0), columnCount |-> Some(0)])
    /\ result[1].value.title = op.sheetTitle
    /\ result[1].value.rowCount = 5
    /\ result[1].value.columnCount = 26

\* C30: getSpreadsheetInfo issues a metadata get and nothing else, and
\* getSheetValues a metadata get followed by at most one values get; neither
\* issues a write, whether it succeeds or fails; no operation of the client
\* issues more than two remote calls
C30_ReadsIssueNoWrites ==
    /\ Len(calls) <= 2
    /\ op.name = "getSpreadsheetInfo" =>
          calls = <<MetadataGet(op.spreadsheetId)>>
    /\ op.name = "getSheetValues" =>
          /\ calls[1] = MetadataGet(op.spreadsheetId)
          /\ Len(calls) = 2 => calls[2].api = "values.get"
    /\ op.name \in {"getSpreadsheetInfo", "getSheetValues"} =>
          \A k \in 1..Len(calls) : calls[k].api \notin WriteApis

\* a getSheetValues whose values get was rejected has failed after a metadata
\* get and one values get
C30_Witness ==
    /\ op.name = "getSheetValues"
    /\ Failed
    /\ Len(calls) = 2
    /\ calls[1].api = "spreadsheets.get"
    /\ calls[2].api = "values.get"

-----------------------------------------------------------------------------
(* The pipeline of the write tools (checked under SpecTools)                 *)

PipelineTools == {"update_cells", "batch_update_cells", "add_sheet"}

\* the operation of the client a tool awaits
ClientOperation(name) ==
    CASE name = "update_cells" -> "updateCellValues"
      [] name = "batch_update_cells" -> "batchUpdateCellValues"
      [] name = "add_sheet" -> "addSheet"

\* the arguments of the tool in flight fail the tool's own validation
FailsToolValidation ==
    CASE tool.name = "update_cells" -> MalformedValues(tool.values)
      [] tool.name = "batch_update_cells" ->
            \/ ~tool.updates.isArray
            \/ tool.updates.items = <<>>
            \/ MalformedUpdates # {}
      [] tool.name = "add_sheet" ->
            \A i \in 1..Len(tool.sheetTitle) : tool.sheetTitle[i] \in Whitespace

\* C25: update_cells, batch_update_cells and add_sheet extract the spreadsheet
\* ID, then validate, then call the client: with an input that is no URL or ID
\* the result is the resolver's error and the client is not called, whatever
\* the other arguments; with an ID and arguments that fail the validation the
\* client is not called either ('Updates must be a non-empty array' for an
\* empty updates list, 'Sheet title cannot be empty' for an empty or blank
\* title); otherwise the client is called once, with the extracted ID
C25_ToolPipeline ==
    tool.name \in PipelineTools =>
        /\ Cardinality(CallsOf("spreadsheets.get")) <= 1
        /\ Len(calls) <= 2
        /\ IF MatchesNoPattern(tool.spreadsheetUrl)
           THEN /\ RejectedByTool
                /\ op = NoOp
                /\ IsErrorResult(<<Lit("Invalid Google Spreadsheet URL or ID")>>)
           ELSE IF FailsToolValidation
           THEN /\ RejectedByTool
                /\ op = NoOp
                /\ (tool.name = "batch_update_cells"
                    /\ (~tool.updates.isArray \/ tool.updates.items = <<>>)) =>
                      IsErrorResult(<<Lit("Updates must be a non-empty array")>>)
                /\ tool.name = "add_sheet" =>
                      IsErrorResult(<<Lit("Sheet title cannot be empty")>>)
           ELSE /\ op.name = ClientOperation(tool.name)
                /\ Resolved(op.spreadsheetId) = extractSpreadsheetId(tool.spreadsheetUrl)
                /\ calls[1] = MetadataGet(op.spreadsheetId)

\* add_sheet with a text that is no URL or ID and a blank title has returned
\* the resolver's error without a call of the client
C25_Witness ==
    /\ tool.name = "add_sheet"
    /\ tool.spreadsheetUrl = InvalidUrl
    /\ tool.sheetTitle = <<" ">>
    /\ RejectedByTool
    /\ op = NoOp
    /\ IsErrorResult(<<Lit("Invalid Google Spreadsheet URL or ID")>>)

-----------------------------------------------------------------------------
(* Specification of concurrent addSheet operations: each caller has its own *)
(* promise chain over the one client and the one remote spreadsheet. The     *)
(* remote answers a call in one step (served) and the caller continues      *)
(* behind its await in a later step, so that the calls of the callers are   *)
(* served and continued in any order                                         *)

ConcurrentTitles == {<<"Q">>, Sheet1}

\* the titles of the sheets of a snapshot
TitlesOf(info) == {info.sheets[i].title : i \in 1..Len(info.sheets)}

\* response.data of a spreadsheets.batchUpdate that added the sheet
AddSheetReply(request, sheetId) ==
    LET properties == request.requests[1].addSheet.properties
    IN [replies |-> Some(<<[addSheet |-> Some([properties |->
           Some([title |-> Some(properties.title), sheetId |-> Some(sheetId),
                 gridProperties |->
                    Some([rowCount |-> Some(properties.gridProperties.rowCount),
                          columnCount |->
                             Some(properties.gridProperties.columnCount)])])])]>>)]

\* what the operations of the concurrent callers leave alone
sequentialVars == <<resolverVars, rangeVars, toolVars, MAX_RESPONSE_SIZE, pc, op,
                    spreadsheetInfo, calls, reply, result, created>>

InitConcurrent ==
    /\ url = <<>>
    /\ resolved = NotRun
    /\ rangeArg = <<>>
    /\ rangeChecked = NotRun
    /\ remote = Remote1
    /\ MAX_RESPONSE_SIZE = configuredMaxResponseSize(None)
    /\ created = {}
    /\ ClientIdle
    /\ ToolIdle
    /\ NoFlights

\* caller c calls addSheet: getSpreadsheetInfo issues spreadsheets.get
addSheet_concurrent_call(c, sheetTitle, options) ==
    /\ flights[c].pc = "idle"
    /\ flights' = [flights EXCEPT ![c] =
                      [NoFlight EXCEPT !.pc = "spreadsheets.get",
                                       !.sheetTitle = sheetTitle,
                                       !.options = options]]
    /\ UNCHANGED <<remote, sequentialVars>>

\* the remote answers the spreadsheets.get of caller c with its sheets of now
remote_spreadsheets_get(c) ==
    /\ flights[c].pc = "spreadsheets.get"
    /\ flights[c].served = None
    /\ flights' = [flights EXCEPT ![c].served = Some([ok |-> TRUE, data |-> remote])]
    /\ UNCHANGED <<remote, sequentialVars>>

\* the remote rejects the pending call of caller c
remote_rejects(c) ==
    /\ flights[c].pc \in {"spreadsheets.get", "spreadsheets.batchUpdate"}
    /\ flights[c].served = None
    /\ \E e \in RemoteErrors : flights' = [flights EXCEPT ![c].served = Some(e)]
    /\ UNCHANGED <<remote, sequentialVars>>

\* caller c continues behind the await of getSpreadsheetInfo: the title is
\* looked up in the snapshot received, then spreadsheets.batchUpdate is issued
addSheet_concurrent_prepared(c) ==
    /\ flights[c].pc = "spreadsheets.get"
    /\ flights[c].served # None
    /\ LET f == flights[c]
           received == f.served[1]
       IN flights' = [flights EXCEPT ![c] =
             IF ~received.ok
             THEN [f EXCEPT !.pc = "done", !.result = Some(received)]
             ELSE LET info == getSpreadsheetInfo(SpreadsheetId, received.data)
                      prepared == prepareAddSheet(info, f.sheetTitle, f.options)
                  IN IF ~prepared.ok
                     THEN [f EXCEPT !.pc = "done", !.spreadsheetInfo = Some(info),
                                    !.result = Some(prepared)]
                     ELSE [f EXCEPT !.pc = "spreadsheets.batchUpdate",
                                    !.spreadsheetInfo = Some(info),
                                    !.served = None,
                                    !.request = Some(prepared.request),
                                    !.issuedOver =
                                       TitlesOf(getSpreadsheetInfo(SpreadsheetId,
                                                                   remote))]]
    /\ UNCHANGED <<remote, sequentialVars>>

\* the remote applies the mutation of caller c and answers it
remote_spreadsheets_batchUpdate(c) ==
    /\ flights[c].pc = "spreadsheets.batchUpdate"
    /\ flights[c].served = None
    /\ remote' = applyAddSheet(remote, flights[c].request[1])
    /\ flights' = [flights EXCEPT ![c].served =
                      Some([ok |-> TRUE,
                            data |-> AddSheetReply(flights[c].request[1],
                                                   NewSheetId(remote))])]
    /\ UNCHANGED sequentialVars

\* caller c continues behind the await of spreadsheets.batchUpdate
addSheet_concurrent_replied(c) ==
    /\ flights[c].pc = "spreadsheets.batchUpdate"
    /\ flights[c].served # None
    /\ LET f == flights[c]
           received == f.served[1]
           grid == f.request[1].requests[1].addSheet.properties.gridProperties
       IN flights' = [flights EXCEPT ![c] =
             [f EXCEPT !.pc = "done",
                       !.result =
                          IF ~received.ok THEN Some(received)
                          ELSE Some(addSheetOutcome(received.data, f.sheetTitle,
                                                    grid))]]
    /\ UNCHANGED <<remote, sequentialVars>>

\* caller c has consumed its settled promise
addSheet_concurrent_settled(c) ==
    /\ flights[c].pc = "done"
    /\ flights' = [flights EXCEPT ![c] = NoFlight]
    /\ UNCHANGED <<remote, sequentialVars>>

NextConcurrent ==
    \/ \E c \in Callers, sheetTitle \in ConcurrentTitles,
          options \in {None, Some([rowCount |-> Some(5), columnCount |-> None])} :
          addSheet_concurrent_call(c, sheetTitle, options)
    \/ \E c \in Callers : remote_spreadsheets_get(c)
    \/ \E c \in Callers : remote_rejects(c)
    \/ \E c \in Callers : addSheet_concurrent_prepared(c)
    \/ \E c \in Callers : remote_spreadsheets_batchUpdate(c)
    \/ \E c \in Callers : addSheet_concurrent_replied(c)
    \/ \E c \in Callers : addSheet_concurrent_settled(c)

SpecConcurrent == InitConcurrent /\ [][NextConcurrent]_vars

-----------------------------------------------------------------------------
(* Properties of concurrent addSheet operations (checked under              *)
(* SpecConcurrent)                                                           *)

\* caller c has issued the add-sheet mutation, and the remote has not
\* rejected it
Issued(c) ==
    /\ flights[c].request # None
    /\ flights[c].served # None => flights[c].served[1].ok
    /\ flights[c].result # None => flights[c].result[1].ok

\* C28 as stated: of two addSheet operations in flight at once for the same
\* title at most one issues the add-sheet mutation, and no mutation is issued
\* for a title that exists at the remote at the moment of issue
C28_AtMostOneMutation ==
    /\ \A c, d \in Callers :
          (c # d /\ flights[c].sheetTitle = flights[d].sheetTitle) =>
              ~(Issued(c) /\ Issued(d))
    /\ \A c \in Callers :
          flights[c].request # None =>
              flights[c].sheetTitle \notin flights[c].issuedOver

\* C28 amended: the title is looked up only in the snapshot the operation has
\* received: an operation whose snapshot holds the title fails with
\* SheetAlreadyExists and issues no mutation, and a mutation is never issued for
\* a title that is in the operation's own snapshot; the remote may have been
\* given the title since the snapshot was served, so two operations in flight
\* whose fetches are both served before either mutation is applied both issue
\* the mutation
C28_CheckedAgainstOwnSnapshot ==
    \A c \in Callers :
        LET f == flights[c]
        IN /\ f.request # None =>
                 /\ f.spreadsheetInfo # None
                 /\ f.sheetTitle \notin TitlesOf(f.spreadsheetInfo[1])
           /\ (f.spreadsheetInfo # None
               /\ f.sheetTitle \in TitlesOf(f.spreadsheetInfo[1])) =>
                 /\ f.pc = "done"
                 /\ f.request = None
                 /\ f.result = Some(SheetAlreadyExists(f.sheetTitle))
           /\ (f.spreadsheetInfo # None
               /\ f.sheetTitle \notin TitlesOf(f.spreadsheetInfo[1])) =>
                 f.request # None

\* two callers have both issued the mutation for "Q", the second of them when
\* the remote already had a sheet "Q"
C28_Witness ==
    /\ flights[1].sheetTitle = <<"Q">>
    /\ flights[2].sheetTitle = <<"Q">>
    /\ Issued(1)
    /\ Issued(2)
    /\ <<"Q">> \in flights[2].issuedOver
    /\ <<"Q">> \notin TitlesOf(flights[2].spreadsheetInfo[1])

====
